---- MODULE Spec2Model ----
(***************************************************************************)
(* Dive Bar: the turn-orchestration engine.                                *)
(*                                                                         *)
(*   Bartender   (src/dive_bar/bartender.py)  who speaks next              *)
(*   DiveBarApp  (src/dive_bar/app.py)        tick -> worker -> commit     *)
(*   engines     (src/dive_bar/inference.py, api_engine.py)  generate      *)
(*                                                                         *)
(* The specifications share the variables:                                 *)
(*   Spec       the application: startup, ticks, the generation worker     *)
(*              thread, the UI handlers.                                   *)
(*   SpecLive   Spec with weak fairness of the steps of a dispatched turn. *)
(*   SpecUI     Spec with the handlers of the control bar.                 *)
(*   SpecSched  the Bartender driven through its own interface             *)
(*              (record_spoke, select_next, the paused attribute) under a  *)
(*              clock, for the claims that quantify over every scheduler   *)
(*              state and every last message.                              *)
(*   SpecPairs  a long run of record_spoke calls, _silence_boost           *)
(*              evaluated between them.                                    *)
(*   SpecDiv    compute_diversity_score on every history and reply of a    *)
(*              small set of texts.                                        *)
(*   SpecTopics the end of _generate_topic on every list of recent topics. *)
(*   SpecClean  _clean_response on every short text of a small alphabet.   *)
(*   SpecEngine one engine.generate call against unload at quit.           *)
(*   SpecSpeed  Spec with the speed handlers and a longer clock, for the   *)
(*              cooldown against every tick interval.                      *)
(*                                                                         *)
(* Numbers.  Time is in whole seconds.  A factor in [0,1] is held in       *)
(* sixtieths (Unit = 60 is 1.0) and the weights in hundredths, so a score  *)
(* is an integer number of 1/6000 and the arithmetic of _score_agent is    *)
(* exact on this grid.  Text is a sequence of one-character strings.       *)
(***************************************************************************)
EXTENDS Integers, Sequences, FiniteSets, TLC

VARIABLES
    \* ---- Bartender (bartender.py:37-51) ----
    last_spoke,       \* dict name -> time; 0 stands for "no entry" (.get(name, 0.0))
    last_spoke_turn,  \* dict name -> turn; 0 stands for "no entry" (.get(name, 0))
    turn_number,
    paused,
    pair_history,     \* _pair_history: list of (last_speaker, agent_name)
    \* ---- the clock read by time.time() ----
    now,
    \* ---- the last select_next call and what it returned ----
    ret,
    \* ---- DiveBarApp (app.py:65-77) ----
    history,          \* list of Message (agent_name, content, turn_number)
    subject_count,    \* _subject_count
    mode,             \* config.llm.mode: "local" or "api"
    opener,           \* _opener
    div_enabled,      \* config.diversity.enabled
    spc,              \* position of the startup worker / session
    timer,            \* when the pending set_timer(interval, self._tick) is due; 0: none
    wpc,              \* position of the "inference" worker thread
    wname,            \* the persona the worker was dispatched for
    wcontent,         \* local variable content of _generate_turn
    wattempt,         \* local variable attempt of _diversity_loop
    in_flight,        \* engines whose backend call is running
    status,           \* sidebar status per persona: "idle" / "thinking"
    attempts,         \* history variable: turn workers dispatched so far
    strangers,        \* history variable: stranger messages injected so far
    max_agents,       \* config.bar.max_agents: the roster is config.agents[:max_agents]
    speed_mult,       \* speed_mult, in quarters (SpeedUnit is 1.0)
    ctl_paused,       \* BarControls._paused
    \* ---- the call under study: in SpecDiv one compute_diversity_score call
    \* and what it returned, in SpecPairs the last record_spoke call ----
    dcall

bvars == <<last_spoke, last_spoke_turn, turn_number, paused, pair_history>>
\* configuration, controls and the diversity call: what a turn never touches
xvars == <<max_agents, speed_mult, ctl_paused, dcall>>
avars == <<history, subject_count, mode, opener, div_enabled, spc, timer, wpc, wname, wcontent,
           wattempt, in_flight, status, attempts, strangers,
           max_agents, speed_mult, ctl_paused, dcall>>
vars  == <<last_spoke, last_spoke_turn, turn_number, paused, pair_history,
           now, ret, history, subject_count, mode, opener, div_enabled, spc, timer, wpc, wname,
           wcontent, wattempt, in_flight, status, attempts, strangers,
           max_agents, speed_mult, ctl_paused, dcall>>

(***************************************************************************)
(* Bounds of the model                                                     *)
(***************************************************************************)
\* the clock starts here (any value at least the cooldown: time.time() is large)
StartTime == 100
\* SpecSched: the clock runs up to StartTime + MaxAdvance
MaxAdvance == 3
\* SpecUI: the clock runs up to StartTime + MaxAdvanceUI
MaxAdvanceUI == 3
\* SpecSched: record_spoke is called at most this many times;
\* Spec: the clock leaves room for this many ticks (ClockEnd)
MaxTurns == 2
\* stranger messages injected at most this many times
MaxStrangers == 1
\* SpecPairs: record_spoke is called at most this many times (the pair history
\* is trimmed by its 21st append)
MaxRecords == 22
\* SpecDiv: the histories compute_diversity_score is tried on have at most
\* this many messages
MaxDivHist == 3
\* SpecTopics: the topic call returns at most this many times (the list of
\* recent topics is full after 5 topics)
MaxTopicCalls == 6
\* SpecClean: the raw texts _clean_response is tried on have at most this many
\* characters (two attributions and a later one take 7)
MaxCleanLen == 7
\* SpecSpeed: the clock runs up to StartTime + MaxAdvanceSpeed (a tick set at
\* half speed after the first turn is due at StartTime + 6)
MaxAdvanceSpeed == 6
\* SpecEngine: generate is called at most this many times
MaxEngineCalls == 2
\* config.diversity.max_retries (default 3, config.py:105)
max_retries == 2
\* config.bar.max_subject_chat (default 3, config.py:39-41)
max_subject_chat == 1

(***************************************************************************)
(* Program constants                                                       *)
(***************************************************************************)
\* the weights, in hundredths
W_TIME == 35
W_CHAT == 25
W_ADDR == 30
W_RAND == 10
TIME_CAP == 60
\* 1.0 on the factor grid: one sixtieth per second of TIME_CAP
Unit == TIME_CAP
SILENCE_THRESHOLD == 8
\* 0.25, in hundredths
SILENCE_BOOST == 25
MAX_PAIR_STREAK == 2
tick_interval == 2
\* a cooldown of one tick interval
cooldownOneTick == tick_interval

\* self.cooldown = tick_interval * COOLDOWN_MULT, COOLDOWN_MULT = 1.5
cooldown == (tick_interval * 3) \div 2
PAIR_MAX == 20
PAIR_KEEP == 10
\* speed_mult is held in quarters: 1.0, its bounds 0.25 and 4.0, the step 0.25
SpeedUnit == 4
SPEED_MIN == 1
SPEED_MAX == 16
SPEED_STEP == 1

(***************************************************************************)
(* The roster (config.agents), in dict iteration order                     *)
(***************************************************************************)
Agents == <<"Al", "Bo", "Cy">>
AgentSet == {Agents[i] : i \in DOMAIN Agents}
\* _create_agents: self.agents holds config.agents[:max_agents]; the Bartender
\* is built from it, so this is the order of Bartender.agents
Roster == SubSeq(Agents, 1, max_agents)
RosterSet == {Roster[i] : i \in DOMAIN Roster}
\* the characters of each name
Spell == [a \in AgentSet |->
            CASE a = "Al" -> <<"A", "l">>
              [] a = "Bo" -> <<"B", "o">>
              [] a = "Cy" -> <<"C", "y">>]
\* AgentConfig.chattiness and .responsiveness, in sixtieths
chattiness == [a \in AgentSet |->
                 CASE a = "Al" -> 30 [] a = "Bo" -> 48 [] a = "Cy" -> 12]
responsiveness == [a \in AgentSet |->
                 CASE a = "Al" -> 30 [] a = "Bo" -> 30 [] a = "Cy" -> 60]

NoOne == "none"          \* Python None where a name is expected
NoMsg == [agent_name |-> NoOne, content |-> <<>>, turn_number |-> 0]
BARTENDER == "Bartender"
STRANGER == "A stranger"

(***************************************************************************)
(* Text                                                                    *)
(***************************************************************************)
\* str.lower() on the characters the model uses
Lower(c) ==
    CASE c = "A" -> "a" [] c = "B" -> "b" [] c = "C" -> "c"
      [] c = "L" -> "l" [] c = "O" -> "o" [] c = "Y" -> "y"
      [] c = "H" -> "h" [] c = "I" -> "i"
      [] OTHER -> c
LowerStr(s) == [i \in DOMAIN s |-> Lower(s[i])]
\* Python's  needle in hay  on str
Contains(hay, needle) ==
    \E i \in 0..(Len(hay) - Len(needle)) :
        SubSeq(hay, i + 1, i + Len(needle)) = needle

EmptyText == <<>>
TxtPlain == <<"h", "i">>
TxtBo == <<"B", "O">>
TxtCyAl == <<"c", "y", " ", "A", "l">>
\* message contents select_next is tried on
Texts == {TxtPlain, TxtBo, TxtCyAl}
\* cleaned texts a backend call can deliver, besides EmptyText
GenTexts == {TxtPlain, TxtBo}
\* what a stranger types (BarControls.on_input_submitted posts non-empty text)
StrangerTexts == {TxtCyAl}
\* the opener _generate_opener returns (never empty: it has a fallback)
OpenerTexts == {TxtPlain}

Min(a, b) == IF a < b THEN a ELSE b
Max(a, b) == IF a > b THEN a ELSE b
\* the least integer not below a / b
CeilDiv(a, b) == (a + b - 1) \div b

(***************************************************************************)
(* Bartender                                                               *)
(***************************************************************************)
\* variant of _get_eligible without the cooldown test
GetEligibleNoCooldown == Roster

\* _get_eligible: the personas not in cooldown, in roster order
GetEligible ==
    SelectSeq(Roster, LAMBDA name : now - last_spoke[name] >= cooldown)

\* variant of the loop of _find_addressed that skips nobody: the first
\* persona of the roster the message names
RECURSIVE FindAddressedAnyoneFrom(_, _)
FindAddressedAnyoneFrom(i, last_message) ==
    IF i > Len(Roster) THEN NoOne
    ELSE IF Contains(LowerStr(last_message.content), LowerStr(Spell[Roster[i]]))
      THEN Roster[i]
    ELSE FindAddressedAnyoneFrom(i + 1, last_message)

\* the loop of _find_addressed from roster position i on
RECURSIVE FindAddressedFrom(_, _)
FindAddressedFrom(i, last_message) ==
    IF i > Len(Roster) THEN NoOne
    ELSE LET name == Roster[i] IN
         IF name = last_message.agent_name
           THEN FindAddressedFrom(i + 1, last_message)
         ELSE IF now - last_spoke[name] < cooldown
           THEN FindAddressedFrom(i + 1, last_message)
         ELSE IF Contains(LowerStr(last_message.content), LowerStr(Spell[name]))
           THEN name
         ELSE FindAddressedFrom(i + 1, last_message)

\* variant of _find_addressed that compares the name as written (no .lower())
RECURSIVE FindAddressedExactFrom(_, _)
FindAddressedExactFrom(i, last_message) ==
    IF i > Len(Roster) THEN NoOne
    ELSE LET name == Roster[i] IN
         IF name = last_message.agent_name
           THEN FindAddressedExactFrom(i + 1, last_message)
         ELSE IF now - last_spoke[name] < cooldown
           THEN FindAddressedExactFrom(i + 1, last_message)
         ELSE IF Contains(last_message.content, Spell[name])
           THEN name
         ELSE FindAddressedExactFrom(i + 1, last_message)
FindAddressedExact(last_message) ==
    IF last_message = NoMsg THEN NoOne
    ELSE FindAddressedExactFrom(1, last_message)

\* _find_addressed
FindAddressed(last_message) ==
    IF last_message = NoMsg THEN NoOne
    ELSE FindAddressedFrom(1, last_message)

\* variant of _pair_locked that compares the ordered pair (speaker, responder)
PairLockedDirected(speaker, responder) ==
    LET n    == Len(pair_history)
        tail == SubSeq(pair_history, Max(1, n - MAX_PAIR_STREAK + 1), n)
    IN  IF Len(tail) < MAX_PAIR_STREAK THEN FALSE
        ELSE \A i \in DOMAIN tail : tail[i] = <<speaker, responder>>

\* _pair_locked
PairLocked(speaker, responder) ==
    LET dyad == {speaker, responder}
        n    == Len(pair_history)
        tail == SubSeq(pair_history, Max(1, n - MAX_PAIR_STREAK + 1), n)
    IN  IF Len(tail) < MAX_PAIR_STREAK THEN FALSE
        ELSE \A i \in DOMAIN tail : {tail[i][1], tail[i][2]} = dyad

\* _time_factor, in sixtieths
TimeFactor(name) ==
    IF last_spoke[name] = 0 THEN Unit
    ELSE Min(((now - last_spoke[name]) * Unit) \div TIME_CAP, Unit)

\* _silence_boost with a strict comparison
SilenceBoostStrict(name) ==
    IF turn_number - last_spoke_turn[name] > SILENCE_THRESHOLD
      THEN SILENCE_BOOST * Unit
      ELSE 0

\* _silence_boost, in 1/6000
SilenceBoost(name) ==
    IF turn_number - last_spoke_turn[name] >= SILENCE_THRESHOLD
      THEN SILENCE_BOOST * Unit
      ELSE 0

\* _addressed_factor, in sixtieths
AddressedFactor(name, last_message) ==
    IF last_message = NoMsg THEN 0
    ELSE IF last_message.agent_name = name THEN 0
    ELSE IF Contains(LowerStr(last_message.content), LowerStr(Spell[name]))
      THEN responsiveness[name]
    ELSE 0

\* _score_agent, in 1/6000; r is the value random.random() returned, in sixtieths
ScoreAgent(name, last_message, r) ==
      W_TIME * TimeFactor(name)
    + W_CHAT * chattiness[name]
    + W_ADDR * AddressedFactor(name, last_message)
    + W_RAND * r
    + SilenceBoost(name)

\* values random.random() takes in the model, in sixtieths (it is below 1.0)
RandVals == {0, 59}
Rands == [AgentSet -> RandVals]

\* max(scores, key=scores.get): the first key, in insertion order, of maximal score
Winner(eligible, last_message, rnd) ==
    LET sc(i) == ScoreAgent(eligible[i], last_message, rnd[eligible[i]])
        best  == CHOOSE i \in DOMAIN eligible :
                    /\ \A j \in DOMAIN eligible : sc(j) <= sc(i)
                    /\ \A j \in 1..(i - 1) : sc(j) < sc(i)
    IN  eligible[best]

\* variant of select_next without the test of self.paused
SelectNextIgnoresPause(last_message, rnd) ==
    LET addressed == FindAddressed(last_message) IN
    IF addressed # NoOne /\ ~PairLocked(last_message.agent_name, addressed)
      THEN [name |-> addressed, path |-> "addressed"]
    ELSE LET eligible == GetEligible IN
         IF eligible = <<>>
           THEN [name |-> NoOne, path |-> "none"]
           ELSE [name |-> Winner(eligible, last_message, rnd),
                 path |-> "weighted"]

\* select_next: the name returned and the return statement that produced it
SelectNext(last_message, rnd) ==
    IF paused THEN [name |-> NoOne, path |-> "paused"]
    ELSE LET addressed == FindAddressed(last_message) IN
         IF addressed # NoOne /\ ~PairLocked(last_message.agent_name, addressed)
           THEN [name |-> addressed, path |-> "addressed"]
         ELSE LET eligible == GetEligible IN
              IF eligible = <<>>
                THEN [name |-> NoOne, path |-> "none"]
                ELSE [name |-> Winner(eligible, last_message, rnd),
                      path |-> "weighted"]

\* variant of the bounded append that keeps the oldest entries when it trims
PairAppendKeepsOldest(ph, last_speaker, agent_name) ==
    IF last_speaker = NoOne THEN ph
    ELSE LET grown == Append(ph, <<last_speaker, agent_name>>) IN
         IF Len(grown) > PAIR_MAX
           THEN SubSeq(grown, 1, PAIR_KEEP)
           ELSE grown

\* the bounded append of record_spoke (bartender.py:135-143)
PairAppend(ph, last_speaker, agent_name) ==
    IF last_speaker = NoOne THEN ph
    ELSE LET grown == Append(ph, <<last_speaker, agent_name>>) IN
         IF Len(grown) > PAIR_MAX
           THEN SubSeq(grown, Len(grown) - PAIR_KEEP + 1, Len(grown))
           ELSE grown

\* variant of record_spoke that stores the turn counter after incrementing it
RecordSpokeAfterIncrement(agent_name, last_speaker) ==
    /\ last_spoke' = [last_spoke EXCEPT ![agent_name] = now]
    /\ last_spoke_turn' = [last_spoke_turn EXCEPT ![agent_name] = turn_number + 1]
    /\ turn_number' = turn_number + 1
    /\ pair_history' = PairAppend(pair_history, last_speaker, agent_name)
    /\ UNCHANGED paused

\* record_spoke
RecordSpoke(agent_name, last_speaker) ==
    /\ last_spoke' = [last_spoke EXCEPT ![agent_name] = now]
    /\ last_spoke_turn' = [last_spoke_turn EXCEPT ![agent_name] = turn_number]
    /\ turn_number' = turn_number + 1
    /\ pair_history' = PairAppend(pair_history, last_speaker, agent_name)
    /\ UNCHANGED paused

(***************************************************************************)
(* DiversityScorer (src/dive_bar/diversity.py)                             *)
(*                                                                         *)
(* A ratio or a score is a record [num, den] of integers, so the           *)
(* arithmetic is exact; on the inputs of SpecDiv the float arithmetic of   *)
(* the code gives the same comparisons and the same rounding.  A phrase    *)
(* (" ".join(ng)) is held as the tuple of its words.                       *)
(***************************************************************************)
\* the weights and the overlap threshold, in hundredths
W_NGRAM == 50
W_OPENER == 25
W_STRUCT == 25
NGRAM_OVERLAP_THRESHOLD == 30
MAX_OPENER_REPEATS == 2
\* struct_sim > 0.7, in hundredths
STRUCT_SIM_THRESHOLD == 70
\* the defaults of ngram_min and ngram_max
NGRAM_MIN == 3
NGRAM_MAX == 6
\* _get_opener: the first 6 words
OPENER_WORDS == 6
\* _check_structural_similarity: the last 3 messages of the agent
STRUCT_MSGS == 3
\* phrases[:5] and phrases[:3]
PHRASES_KEPT == 5
PHRASES_SHOWN == 3
\* formulaic_opener[:40]
OPENER_SHOWN == 40

\* the members of STOP_WORDS that the letters of the model's texts can spell
STOP_WORDS == {<<"i">>, <<"a">>, <<"b", "e">>, <<"d", "i", "d">>}
\* the characters of string.punctuation the model's texts use
PUNCTUATION == {",", ".", "!", "?"}

SeqToSet(q) == {q[i] : i \in DOMAIN q}
RECURSIVE SumSeq(_)
SumSeq(q) == IF q = <<>> THEN 0 ELSE q[1] + SumSeq(Tail(q))
\* q[-n:] for n >= 1
LastN(q, n) == SubSeq(q, Max(1, Len(q) - n + 1), Len(q))

\* text.translate(str.maketrans("", "", string.punctuation)), re.sub(r"[^\w\s]", "", .)
StripPunctuation(text) == SelectSeq(text, LAMBDA c : c \notin PUNCTUATION)

\* str.split(): the maximal runs of non-space characters
RECURSIVE SplitFrom(_, _, _)
SplitFrom(text, i, word) ==
    IF i > Len(text)
      THEN (IF word = <<>> THEN <<>> ELSE <<word>>)
    ELSE IF text[i] = " "
      THEN (IF word = <<>> THEN <<>> ELSE <<word>>) \o SplitFrom(text, i + 1, <<>>)
    ELSE SplitFrom(text, i + 1, Append(word, text[i]))
Split(text) == SplitFrom(text, 1, <<>>)

\* " ".join(words)
RECURSIVE Join(_)
Join(words) ==
    IF words = <<>> THEN <<>>
    ELSE IF Len(words) = 1 THEN words[1]
    ELSE words[1] \o <<" ">> \o Join(Tail(words))

\* str.strip()
RECURSIVE StripLeft(_)
StripLeft(text) ==
    IF text # <<>> /\ text[1] = " " THEN StripLeft(Tail(text)) ELSE text
RECURSIVE StripRight(_)
StripRight(text) ==
    IF text # <<>> /\ text[Len(text)] = " "
      THEN StripRight(SubSeq(text, 1, Len(text) - 1))
      ELSE text
Strip(text) == StripRight(StripLeft(text))

\* tokenize
tokenize(text) ==
    SelectSeq(Split(StripPunctuation(LowerStr(text))),
              LAMBDA w : w \notin STOP_WORDS)

\* extract_ngrams
extract_ngrams(words, n) ==
    IF Len(words) < n THEN <<>>
    ELSE [i \in 1..(Len(words) - n + 1) |-> SubSeq(words, i, i + n - 1)]

\* variant of _build_history_ngrams that takes the n-grams of length ngram_min only
BuildHistoryNgramsShortest(hist, ngram_min, ngram_max) ==
    UNION {SeqToSet(extract_ngrams(tokenize(hist[i].content), ngram_min)) :
              i \in DOMAIN hist}

\* _build_history_ngrams
BuildHistoryNgrams(hist, ngram_min, ngram_max) ==
    UNION {SeqToSet(extract_ngrams(tokenize(hist[i].content), n)) :
              i \in DOMAIN hist, n \in ngram_min..ngram_max}

\* the list response_ngrams of _check_ngram_overlap, from length n on
RECURSIVE ResponseNgrams(_, _, _)
ResponseNgrams(words, n, ngram_max) ==
    IF n > ngram_max THEN <<>>
    ELSE extract_ngrams(words, n) \o ResponseNgrams(words, n + 1, ngram_max)

\* _check_ngram_overlap: the ratio and the set of repeated phrases (before the
\* slice phrases[:5])
CheckNgramOverlap(response, history_ngrams, ngram_min, ngram_max) ==
    LET words == tokenize(response) IN
    IF Len(words) < ngram_min
      THEN [num |-> 0, den |-> 1, phrases |-> {}]
    ELSE LET response_ngrams == ResponseNgrams(words, ngram_min, ngram_max) IN
         IF response_ngrams = <<>>
           THEN [num |-> 0, den |-> 1, phrases |-> {}]
           ELSE LET overlapping ==
                      SelectSeq(response_ngrams,
                                LAMBDA ng : ng \in history_ngrams)
                IN  [num |-> Len(overlapping), den |-> Len(response_ngrams),
                     phrases |-> SeqToSet(overlapping)]

\* what a slice [:n] of list(a set) can hold: the order of a set is arbitrary
SliceChoices(S, n) ==
    {K \in SUBSET S : Cardinality(K) = Min(n, Cardinality(S))}

\* _get_opener
GetOpener(text) ==
    LET words == Split(LowerStr(text))
        first == SubSeq(words, 1, Min(OPENER_WORDS, Len(words)))
    IN  Strip(StripPunctuation(Join(first)))

\* _build_opener_counts: the Counter, as a function on the openers counted
BuildOpenerCounts(hist, agent_name) ==
    LET mine == {i \in DOMAIN hist :
                    /\ hist[i].agent_name = agent_name
                    /\ GetOpener(hist[i].content) # <<>>}
    IN  [o \in {GetOpener(hist[i].content) : i \in mine} |->
            Cardinality({i \in mine : GetOpener(hist[i].content) = o})]

\* Python None where an opener is expected
NoOpener == <<"None">>

\* variant of _check_formulaic_opener that flags from the fourth use on
CheckFormulaicOpenerLate(response, opener_counts) ==
    LET this_opener == GetOpener(response)
        count  == IF this_opener \in DOMAIN opener_counts
                    THEN opener_counts[this_opener] ELSE 0
    IN  IF this_opener = <<>> THEN NoOpener
        ELSE IF count > MAX_OPENER_REPEATS THEN this_opener
        ELSE NoOpener

\* _check_formulaic_opener
CheckFormulaicOpener(response, opener_counts) ==
    LET this_opener == GetOpener(response)
        count  == IF this_opener \in DOMAIN opener_counts
                    THEN opener_counts[this_opener] ELSE 0
    IN  IF this_opener = <<>> THEN NoOpener
        ELSE IF count >= MAX_OPENER_REPEATS THEN this_opener
        ELSE NoOpener

\* re.split(r"[.!?]+", text), the pieces that are not blank, counted
RECURSIVE SentencesFrom(_, _, _)
SentencesFrom(text, i, seen) ==
    IF i > Len(text) THEN (IF seen THEN 1 ELSE 0)
    ELSE IF text[i] \in {".", "!", "?"}
      THEN (IF seen THEN 1 ELSE 0) + SentencesFrom(text, i + 1, FALSE)
    ELSE SentencesFrom(text, i + 1, seen \/ text[i] # " ")

\* text.count(c)
CountChar(text, c) == Cardinality({i \in DOMAIN text : text[i] = c})

\* _compute_structural_features: sentence_count, question_marks, commas,
\* exclamations, word_count
ComputeStructuralFeatures(text) ==
    <<SentencesFrom(text, 1, FALSE), CountChar(text, "?"), CountChar(text, ","),
      CountChar(text, "!"), Len(Split(text))>>

\* _feature_similarity: matches, out of total = len(f1)
FeatureMatches(f1, f2) == Cardinality({k \in DOMAIN f1 : f1[k] = f2[k]})

\* variant of _check_structural_similarity that reports full similarity when
\* the agent has no message in the window
CheckStructuralSimilarityNoneIsSame(response, hist, agent_name) ==
    LET agent_msgs == LastN(SelectSeq(hist, LAMBDA m : m.agent_name = agent_name),
                            STRUCT_MSGS)
        resp_features == ComputeStructuralFeatures(response)
    IN  IF agent_msgs = <<>> THEN [num |-> 1, den |-> 1]
        ELSE [num |-> SumSeq([k \in DOMAIN agent_msgs |->
                        FeatureMatches(resp_features,
                            ComputeStructuralFeatures(agent_msgs[k].content))]),
              den |-> Len(resp_features) * Len(agent_msgs)]

\* _check_structural_similarity: sum(matches / total) / len(agent_msgs)
CheckStructuralSimilarity(response, hist, agent_name) ==
    LET agent_msgs == LastN(SelectSeq(hist, LAMBDA m : m.agent_name = agent_name),
                            STRUCT_MSGS)
        resp_features == ComputeStructuralFeatures(response)
    IN  IF agent_msgs = <<>> THEN [num |-> 0, den |-> 1]
        ELSE [num |-> SumSeq([k \in DOMAIN agent_msgs |->
                        FeatureMatches(resp_features,
                            ComputeStructuralFeatures(agent_msgs[k].content))]),
              den |-> Len(resp_features) * Len(agent_msgs)]

\* num / den cut to 3 decimals
Round3Down(num, den) == (num * 1000) \div den

\* round(x, 3) of x = num / den, in thousandths (ties go to the even digit)
Round3(num, den) ==
    LET q == (num * 1000) \div den
        r == (num * 1000) % den
    IN  IF 2 * r < den THEN q
        ELSE IF 2 * r > den THEN q + 1
        ELSE IF q % 2 = 0 THEN q ELSE q + 1

\* recent = history[-window:] if history else []   (window >= 1)
Recent(hist, window) == IF hist = <<>> THEN <<>> ELSE LastN(hist, window)

\* the overlap compute_diversity_score gets from _check_ngram_overlap
OverlapOf(response, hist, window) ==
    CheckNgramOverlap(response,
        BuildHistoryNgrams(Recent(hist, window), NGRAM_MIN, NGRAM_MAX),
        NGRAM_MIN, NGRAM_MAX)

\* compute_diversity_score.  threshold is in thousandths; kept is what
\* phrases[:5] held and shown what phrases[:3] held.
ComputeDiversityScore(response, hist, agent_name, window, threshold, kept, shown) ==
    LET recent  == Recent(hist, window)
        overlap == OverlapOf(response, hist, window)
        over    == overlap.num * 100 > NGRAM_OVERLAP_THRESHOLD * overlap.den
        \* 1.0 - min(1.0, overlap_ratio / 0.5)
        ng_num  == Max(0, overlap.den - 2 * overlap.num)
        ng_den  == overlap.den
        formulaic_opener ==
            CheckFormulaicOpener(response, BuildOpenerCounts(recent, agent_name))
        opener_score == IF formulaic_opener # NoOpener THEN 0 ELSE 1
        sim     == CheckStructuralSimilarity(response, recent, agent_name)
        st_num  == sim.den - sim.num
        st_den  == sim.den
        \* W_NGRAM * ngram_score + W_OPENER * opener_score + W_STRUCT * struct_score
        f_num   == W_NGRAM * ng_num * st_den
                   + W_OPENER * opener_score * ng_den * st_den
                   + W_STRUCT * st_num * ng_den
        f_den   == 100 * ng_den * st_den
        problems ==
            (IF over THEN <<<<"Repeated phrases", shown>>>> ELSE <<>>)
            \o (IF formulaic_opener # NoOpener
                  THEN <<<<"Repeated opener",
                           SubSeq(formulaic_opener, 1,
                                  Min(OPENER_SHOWN, Len(formulaic_opener)))>>>>
                  ELSE <<>>)
            \o (IF sim.num * 100 > STRUCT_SIM_THRESHOLD * sim.den
                  THEN <<<<"Similar structure", <<>>>>>>
                  ELSE <<>>)
    IN  [score |-> Round3(f_num, f_den),
         passed |-> f_num * 1000 >= threshold * f_den,
         problems |-> problems,
         repeated_ngrams |-> IF over THEN kept ELSE {},
         formulaic_opener |-> formulaic_opener,
         overlap_ratio |-> [num |-> overlap.num, den |-> overlap.den],
         final_score |-> [num |-> f_num, den |-> f_den]]

(***************************************************************************)
(* The state after construction (DiveBarApp.__init__, Bartender.__init__,  *)
(* BarControls.__init__)                                                   *)
(***************************************************************************)
NoRet == [called |-> FALSE, last |-> NoMsg, name |-> NoOne, path |-> "none"]
\* no compute_diversity_score call has been made
NoCall == [called |-> FALSE]

\* all of it but the diversity call
InitState ==
    /\ last_spoke = [a \in AgentSet |-> 0]
    /\ last_spoke_turn = [a \in AgentSet |-> 0]
    /\ turn_number = 0
    /\ paused = FALSE
    /\ pair_history = <<>>
    /\ now = StartTime
    /\ ret = NoRet
    /\ history = <<>>
    /\ subject_count = 0
    /\ mode \in {"local", "api"}
    /\ opener = EmptyText
    /\ div_enabled \in BOOLEAN
    /\ spc = "init"
    /\ timer = 0
    /\ wpc = "idle"
    /\ wname = NoOne
    /\ wcontent = EmptyText
    /\ wattempt = 0
    /\ in_flight = {}
    /\ status = [a \in AgentSet |-> "idle"]
    /\ attempts = 0
    /\ strangers = 0
    /\ max_agents \in 1..Len(Agents)
    /\ speed_mult = SpeedUnit
    /\ ctl_paused = FALSE

Init == InitState /\ dcall = NoCall

(***************************************************************************)
(* SpecSched: the Bartender under its own interface                        *)
(***************************************************************************)
\* who a caller can name as the previous speaker (None: empty history)
LastSpeakers == AgentSet \cup {NoOne}
\* the last messages select_next is called with
LastMsgs ==
    {NoMsg} \cup
    [agent_name : AgentSet \cup {BARTENDER}, content : Texts, turn_number : {0}]

SchedRecord ==
    /\ ~ret.called
    /\ turn_number < MaxTurns
    /\ \E a \in AgentSet, ls \in LastSpeakers : RecordSpoke(a, ls)
    /\ UNCHANGED <<now, ret, avars>>

SchedAdvance ==
    /\ ~ret.called
    /\ now < StartTime + MaxAdvance
    /\ now' = now + 1
    /\ UNCHANGED <<bvars, ret, avars>>

\* bartender.paused is assigned by the application's pause handlers
SchedSetPaused ==
    /\ ~ret.called
    /\ paused' = ~paused
    /\ UNCHANGED <<last_spoke, last_spoke_turn, turn_number, pair_history,
                   now, ret, avars>>

\* a caller calls select_next and holds what it returned
SchedSelect ==
    /\ ~ret.called
    /\ \E last_message \in LastMsgs, rnd \in Rands :
         LET r == SelectNext(last_message, rnd) IN
         ret' = [called |-> TRUE, last |-> last_message,
                 name |-> r.name, path |-> r.path]
    /\ UNCHANGED <<bvars, now, avars>>

\* the caller is done with the returned name
SchedReturn ==
    /\ ret.called
    /\ ret' = NoRet
    /\ UNCHANGED <<bvars, now, avars>>

NextSched ==
    SchedRecord \/ SchedAdvance \/ SchedSetPaused \/ SchedSelect \/ SchedReturn

\* the Bartender of a local-mode application
InitSched == Init /\ mode = "local" /\ div_enabled /\ max_agents = Len(Agents)

SpecSched == InitSched /\ [][NextSched]_vars

(***************************************************************************)
(* SpecPairs: a long run of record_spoke calls.  The first MaxTurns calls  *)
(* take any arguments; in the later ones the persona the last call named   *)
(* as last_speaker answers, or the next of the roster does when the last   *)
(* call named none, each call naming the previous speaker as last_speaker  *)
(* the way _generate_turn does.  Between the calls _silence_boost is       *)
(* evaluated for any persona and its result kept in dcall.                 *)
(***************************************************************************)
\* the persona of the latest record_spoke call
LastRecorded ==
    CHOOSE a \in AgentSet :
        last_spoke[a] # 0 /\ last_spoke_turn[a] = turn_number - 1

\* the persona after a in roster order, the first after the last
NextInRoster(a) ==
    LET i == CHOOSE j \in DOMAIN Agents : Agents[j] = a
    IN  Agents[(i % Len(Agents)) + 1]

\* the persona that answers the last call: the one it named, else the next
\* of the roster
NextToSpeak ==
    IF dcall.last_speaker \in AgentSet \ {dcall.agent_name}
      THEN dcall.last_speaker
      ELSE NextInRoster(dcall.agent_name)

\* record_spoke(a, ls), the arguments kept in dcall
PairsCall(a, ls) ==
    /\ RecordSpoke(a, ls)
    /\ dcall' = [called |-> TRUE, agent_name |-> a, last_speaker |-> ls,
                 boost_name |-> NoOne, boost |-> 0]

PairsRecord ==
    /\ turn_number < MaxRecords
    /\ IF turn_number < MaxTurns
         THEN \E a \in AgentSet, ls \in LastSpeakers : PairsCall(a, ls)
         ELSE PairsCall(NextToSpeak, LastRecorded)
    /\ UNCHANGED <<now, ret, history, subject_count, mode, opener,
                   div_enabled, spc, timer, wpc, wname, wcontent, wattempt,
                   in_flight, status, attempts, strangers, max_agents,
                   speed_mult, ctl_paused>>

\* time passes between the first calls
PairsAdvance ==
    /\ turn_number < MaxTurns
    /\ now < StartTime + MaxAdvance
    /\ now' = now + 1
    /\ UNCHANGED <<bvars, ret, avars>>

\* _silence_boost(name) on the scheduler as it stands, the result kept in
\* dcall
PairsSilenceBoost ==
    /\ dcall.called
    /\ \E name \in AgentSet :
         dcall' = [dcall EXCEPT !.boost_name = name,
                                !.boost = SilenceBoost(name)]
    /\ UNCHANGED <<bvars, now, ret, history, subject_count, mode, opener,
                   div_enabled, spc, timer, wpc, wname, wcontent, wattempt,
                   in_flight, status, attempts, strangers, max_agents,
                   speed_mult, ctl_paused>>

NextPairs == PairsRecord \/ PairsAdvance \/ PairsSilenceBoost

SpecPairs == InitSched /\ [][NextPairs]_vars

(***************************************************************************)
(* SpecDiv: compute_diversity_score as a function.  The initial states     *)
(* draw the arguments of one call; the step makes the call.                *)
(***************************************************************************)
\* "..."
TxtDots == <<".", ".", ".">>
\* "b c d e": four words, none a stop word
TxtPhrase == <<"b", " ", "c", " ", "d", " ", "e">>
\* "B c, d e!": the same words, written otherwise
TxtPhraseLoud == <<"B", " ", "c", ",", " ", "d", " ", "e", "!">>
\* "g b c d e": an utterance that holds the phrase
TxtPhraseInside == <<"g", " ", "b", " ", "c", " ", "d", " ", "e">>
\* "a i b c": four words, two of them stop words
TxtStops == <<"a", " ", "i", " ", "b", " ", "c">>
\* "a i a i a i b" and "a i a i a i c": the same first six words
TxtSeven == <<"a", " ", "i", " ", "a", " ", "i", " ", "a", " ", "i", " ", "b">>
TxtSevenOther == <<"a", " ", "i", " ", "a", " ", "i", " ", "a", " ", "i", " ", "c">>

DivResponses == {EmptyText, TxtDots, TxtPhrase, TxtPhraseLoud, TxtStops, TxtSeven}
DivContents == {TxtDots, TxtPhraseInside, TxtStops, TxtSevenOther}
DivSpeakers == {"Al", "Bo"}
DivMessages == [agent_name : DivSpeakers, content : DivContents, turn_number : {0}]
DivHistories == UNION {[1..n -> DivMessages] : n \in 0..MaxDivHist}
\* config.diversity.window_size: the default and one shorter than a history
DivWindows == {2, 10}
\* config.diversity.threshold, in thousandths: the default, one between two
\* aggregates the texts produce (11/12 and 14/15), 1.0 and above 1.0
DivThresholds == {600, 917, 1000, 1100}

DivCalls ==
    [called : {FALSE}, response : DivResponses, agent_name : DivSpeakers,
     history : DivHistories, window : DivWindows, threshold : DivThresholds]

DivCompute ==
    /\ ~dcall.called
    /\ LET overlap == OverlapOf(dcall.response, dcall.history, dcall.window) IN
       \E kept \in SliceChoices(overlap.phrases, PHRASES_KEPT) :
       \E shown \in SliceChoices(kept, PHRASES_SHOWN) :
          dcall' = [called |-> TRUE,
                    response |-> dcall.response,
                    agent_name |-> dcall.agent_name,
                    history |-> dcall.history,
                    window |-> dcall.window,
                    threshold |-> dcall.threshold,
                    result |-> ComputeDiversityScore(dcall.response,
                                  dcall.history, dcall.agent_name,
                                  dcall.window, dcall.threshold, kept, shown)]
    /\ UNCHANGED <<bvars, now, ret, history, subject_count, mode, opener,
                   div_enabled, spc, timer, wpc, wname, wcontent, wattempt,
                   in_flight, status, attempts, strangers, max_agents,
                   speed_mult, ctl_paused>>

NextDiv == DivCompute

InitDiv ==
    /\ InitState /\ mode = "local" /\ div_enabled /\ max_agents = Len(Agents)
    /\ dcall \in DivCalls

SpecDiv == InitDiv /\ [][NextDiv]_vars

(***************************************************************************)
(* DiveBarApp                                                              *)
(*                                                                         *)
(* Threads.  The main thread runs on_mount, the timer callback _tick, the  *)
(* message handlers and whatever a worker hands over with call_from_thread *)
(* (which blocks the worker until the main thread has run it).  _startup   *)
(* and _generate_turn run on worker threads (run_worker(thread=True)).     *)
(* Each step of a worker below is one action, so main-thread handlers      *)
(* interleave between them.                                                *)
(*                                                                         *)
(* A backend call is two steps: ...Begin takes the engine's lock and       *)
(* enters the backend, ...End delivers the text and releases the lock.     *)
(* The text is what _clean_response leaves of the result; whether          *)
(* compute_diversity_score passes it is an input of the step.              *)
(***************************************************************************)
\* the end of the modelled clock: room for MaxTurns ticks
ClockEnd == StartTime + tick_interval * MaxTurns + 1

\* positions at which the worker thread itself takes the next step
WorkerPcs == {"build", "gen_ready", "gen", "div", "regen",
              "log_regen", "record", "commit"}

\* history[-1] if history else None
LastOf(h) == IF h = <<>> THEN NoMsg ELSE h[Len(h)]

\* _get_engine
GetEngine(name) ==
    IF mode = "api"
      THEN (IF name # NoOne THEN name ELSE "house")
      ELSE "engine"

\* engine.generate up to the backend: with self._lock
GenerateBegin(engine) ==
    /\ engine \notin in_flight
    /\ in_flight' = in_flight \cup {engine}

\* variant of the return in which the call stays in flight
GenerateEndStaysInFlight(engine) ==
    in_flight' = in_flight

\* engine.generate returning: the lock is released
GenerateEnd(engine) ==
    in_flight' = in_flight \ {engine}

\* _schedule_next_tick: set_timer(tick_interval / speed_mult, self._tick).
\* The clock is read at whole seconds, and the first whole second at which a
\* timer set for d seconds can have fired is the least integer not below d.
ScheduleNextTick ==
    timer' = now + CeilDiv(tick_interval * SpeedUnit, speed_mult)

\* time passes
Advance ==
    /\ now < ClockEnd
    /\ now' = now + 1
    /\ UNCHANGED <<bvars, ret, avars>>

\* on_mount: the startup worker is started
OnMount ==
    /\ spc = "init"
    /\ spc' = "startup"
    /\ UNCHANGED <<bvars, xvars, now, ret, history, subject_count, mode, opener,
                   div_enabled, timer, wpc, wname, wcontent, wattempt,
                   in_flight, status, attempts, strangers>>

\* _startup: load the engines, then _generate_opener up to the backend
StartupGenerate ==
    /\ spc = "startup"
    /\ GenerateBegin(GetEngine(NoOne))
    /\ spc' = "opener"
    /\ UNCHANGED <<bvars, xvars, now, ret, history, subject_count, mode, opener,
                   div_enabled, timer, wpc, wname, wcontent, wattempt,
                   status, attempts, strangers>>

\* _generate_opener returns and _startup ends
StartupDone ==
    /\ spc = "opener"
    /\ GenerateEnd(GetEngine(NoOne))
    /\ \E text \in OpenerTexts : opener' = text
    /\ spc' = "ready"
    /\ UNCHANGED <<bvars, xvars, now, ret, history, subject_count, mode,
                   div_enabled, timer, wpc, wname, wcontent, wattempt,
                   status, attempts, strangers>>

\* list.append
HistoryAppend(h, msg) == Append(h, msg)

\* variant of _seed_conversation that assigns the list instead of appending
SeedReplacesHistory ==
    history' = <<[agent_name |-> BARTENDER, content |-> opener,
                  turn_number |-> 0]>>

\* _seed_conversation
SeedConversation ==
    history' = HistoryAppend(history,
        [agent_name |-> BARTENDER, content |-> opener, turn_number |-> 0])

\* on_worker_state_changed -> _on_model_ready
OnModelReady ==
    /\ spc = "ready"
    /\ SeedConversation
    /\ timer' = now + tick_interval
    /\ spc' = "open"
    /\ UNCHANGED <<bvars, xvars, now, ret, subject_count, mode, opener, div_enabled,
                   wpc, wname, wcontent, wattempt, in_flight, status,
                   attempts, strangers>>

\* _tick from "thinking" on: run_worker(_generate_turn(name))
Dispatch(name) ==
    /\ status' = [status EXCEPT ![name] = "thinking"]
    /\ wpc' = "build"
    /\ wname' = name
    /\ wcontent' = EmptyText
    /\ wattempt' = 0
    /\ attempts' = attempts + 1
    /\ timer' = 0

\* variant of the branch of _tick for no speaker that lets the chain end
TickNoSpeakerNoTimer ==
    /\ timer' = 0
    /\ UNCHANGED <<status, wpc, wname, wcontent, wattempt, attempts>>

\* _tick, app.py:293-295: if name is None: self._schedule_next_tick(); return
TickNoSpeaker ==
    /\ ScheduleNextTick
    /\ UNCHANGED <<status, wpc, wname, wcontent, wattempt, attempts>>

\* variant of the paused branch that asks the scheduler before it returns
TickPausedSelects ==
    /\ \E rnd \in Rands :
         LET last == LastOf(history)
             r    == SelectNext(last, rnd) IN
         ret' = [called |-> TRUE, last |-> last,
                 name |-> r.name, path |-> r.path]
    /\ TickNoSpeaker

\* _tick, app.py:284-286: if self.bartender.paused: self._schedule_next_tick(); return
TickPaused ==
    /\ ScheduleNextTick
    /\ UNCHANGED <<ret, status, wpc, wname, wcontent, wattempt, attempts>>

\* _tick; ret keeps the select_next call it made
Tick ==
    /\ timer # 0
    /\ now >= timer
    /\ IF paused
         THEN TickPaused
         ELSE \E rnd \in Rands :
              LET last == LastOf(history)
                  r    == SelectNext(last, rnd) IN
              /\ ret' = [called |-> TRUE, last |-> last,
                         name |-> r.name, path |-> r.path]
              /\ IF r.name = NoOne
                   THEN TickNoSpeaker
                   ELSE Dispatch(r.name)
    /\ UNCHANGED <<bvars, xvars, now, history, subject_count, mode, opener,
                   div_enabled, spc, in_flight, strangers>>

\* agent.build_topic_prompt(self._recent_topics or None) in _generate_topic
\* (app.py:397-399): Agent.build_topic_prompt (agent.py:84) takes no argument
\* besides self, so the call raises TypeError, before the backend call and
\* before _subject_count = 0; nothing in _generate_turn catches it
BuildTopicPrompt == "failed"

\* _build_turn_messages, the branch of a topic change: _generate_topic raises
\* and the exception ends the worker thread
TopicChange ==
    /\ wpc' = BuildTopicPrompt
    /\ UNCHANGED subject_count

\* _build_turn_messages
WorkerBuild ==
    /\ wpc = "build"
    /\ IF subject_count >= max_subject_chat
         THEN TopicChange
         ELSE /\ subject_count' = subject_count + 1
              /\ wpc' = "gen_ready"
    /\ UNCHANGED <<bvars, xvars, now, ret, history, mode, opener, div_enabled, spc,
                   timer, wname, wcontent, wattempt, status, attempts,
                   strangers, in_flight>>

\* _generate_turn: engine.generate(messages, stop=stop) up to the backend
WorkerGenerate ==
    /\ wpc = "gen_ready"
    /\ GenerateBegin(GetEngine(wname))
    /\ wpc' = "gen"
    /\ UNCHANGED <<bvars, xvars, now, ret, history, subject_count, mode, opener,
                   div_enabled, spc, timer, wname, wcontent, wattempt, status,
                   attempts, strangers>>

\* variant of the test that enters the loop with an empty text too
EntersDiversityLoopOnEmpty(content) == div_enabled

\* if div_cfg.enabled and content: the loop is entered
EntersDiversityLoop(content) == div_enabled /\ content # EmptyText

\* the call returns; content = _clean_response(...)
WorkerGenerateDone ==
    /\ wpc = "gen"
    /\ GenerateEnd(GetEngine(wname))
    /\ \E text \in GenTexts \cup {EmptyText} :
         /\ wcontent' = text
         /\ wpc' = IF EntersDiversityLoop(text) THEN "div" ELSE "record"
    /\ UNCHANGED <<bvars, xvars, now, ret, history, subject_count, mode, opener,
                   div_enabled, spc, timer, wname, wattempt, status, attempts,
                   strangers>>

\* variant of the loop test that is off by one
LoopContinuesOneMore(attempt) == attempt <= max_retries

\* while attempt < div_cfg.max_retries
LoopContinues(attempt) == attempt < max_retries

\* app.py:333-336: where _generate_turn goes on after _diversity_loop returned
\* (content, regen_count):  if regen_count > 0: self._log_regeneration(...)
AfterLoop(regen_count) == IF regen_count > 0 THEN "log_regen" ELSE "record"

\* _diversity_loop: the loop test, compute_diversity_score, and on a failed
\* check the regeneration call up to the backend
WorkerDiversity ==
    /\ wpc = "div"
    /\ IF LoopContinues(wattempt)
         THEN \E passed \in BOOLEAN :
              IF passed
                THEN wpc' = AfterLoop(wattempt) /\ UNCHANGED in_flight
                ELSE GenerateBegin(GetEngine(wname)) /\ wpc' = "regen"
         ELSE wpc' = AfterLoop(wattempt) /\ UNCHANGED in_flight
    /\ UNCHANGED <<bvars, xvars, now, ret, history, subject_count, mode, opener,
                   div_enabled, spc, timer, wname, wcontent, wattempt, status,
                   attempts, strangers>>

\* the regeneration returns: content replaced, attempt += 1, break if empty
WorkerRegenDone ==
    /\ wpc = "regen"
    /\ GenerateEnd(GetEngine(wname))
    /\ \E text \in GenTexts \cup {EmptyText} :
         /\ wcontent' = text
         /\ wpc' = IF text = EmptyText THEN AfterLoop(wattempt + 1) ELSE "div"
    /\ wattempt' = wattempt + 1
    /\ UNCHANGED <<bvars, xvars, now, ret, history, subject_count, mode, opener,
                   div_enabled, spc, timer, wname, status, attempts,
                   strangers>>

\* self.db.log_regeneration(...) in _log_regeneration: Database (db.py:69-192)
\* defines log_message, start_session, end_session, get_session_messages,
\* config_hash and close, and no log_regeneration, so the attribute lookup
\* raises AttributeError; nothing in _generate_turn catches it
LogRegeneration == "failed"

\* _generate_turn: self._log_regeneration(name, regen_count).  The exception
\* ends the worker thread: nothing after this line of _generate_turn runs.
WorkerLogRegeneration ==
    /\ wpc = "log_regen"
    /\ wpc' = LogRegeneration
    /\ UNCHANGED <<bvars, xvars, now, ret, history, subject_count, mode, opener,
                   div_enabled, spc, timer, wname, wcontent, wattempt,
                   in_flight, status, attempts, strangers>>

\* app.py:343-350: "Always record spoke to prevent loops"
SpokeAfterTurn(name, last_speaker, content) ==
    RecordSpoke(name, last_speaker)

\* _generate_turn from get_score to the test of content
WorkerRecord ==
    /\ wpc = "record"
    /\ SpokeAfterTurn(wname, LastOf(history).agent_name, wcontent)
    /\ wpc' = IF wcontent = EmptyText THEN "cb_empty" ELSE "commit"
    /\ UNCHANGED <<xvars, now, ret, history, subject_count, mode, opener,
                   div_enabled, spc, timer, wname, wcontent, wattempt,
                   in_flight, status, attempts, strangers>>

\* _generate_turn: turn = self.bartender.turn_number; history.append(msg)
WorkerCommit ==
    /\ wpc = "commit"
    /\ history' = HistoryAppend(history,
          [agent_name |-> wname, content |-> wcontent,
           turn_number |-> turn_number])
    /\ wpc' = "cb_display"
    /\ UNCHANGED <<bvars, xvars, now, ret, subject_count, mode, opener, div_enabled,
                   spc, timer, wname, wcontent, wattempt, in_flight, status,
                   attempts, strangers>>

\* _on_empty_response, run by the main thread for the waiting worker
OnEmptyResponse ==
    /\ wpc = "cb_empty"
    /\ status' = [status EXCEPT ![wname] = "idle"]
    /\ ScheduleNextTick
    /\ wpc' = "idle"
    /\ UNCHANGED <<bvars, xvars, now, ret, history, subject_count, mode, opener,
                   div_enabled, spc, wname, wcontent, wattempt, in_flight,
                   attempts, strangers>>

\* _display_message, run by the main thread for the waiting worker
DisplayMessage ==
    /\ wpc = "cb_display"
    /\ status' = [status EXCEPT ![wname] = "idle"]
    /\ ScheduleNextTick
    /\ wpc' = "idle"
    /\ UNCHANGED <<bvars, xvars, now, ret, history, subject_count, mode, opener,
                   div_enabled, spc, wname, wcontent, wattempt, in_flight,
                   attempts, strangers>>

\* action_toggle_pause
ActionTogglePause ==
    /\ spc # "init"
    /\ paused' = ~paused
    /\ UNCHANGED <<last_spoke, last_spoke_turn, turn_number, pair_history,
                   now, ret, avars>>

\* BarControls._toggle_pause (the Pause button) and the on_pause_toggled it
\* posts to the application
OnPauseToggled ==
    /\ spc # "init"
    /\ ctl_paused' = ~ctl_paused
    /\ paused' = ctl_paused'
    /\ UNCHANGED <<last_spoke, last_spoke_turn, turn_number, pair_history,
                   now, ret, history, subject_count, mode, opener,
                   div_enabled, spc, timer, wpc, wname, wcontent, wattempt,
                   in_flight, status, attempts, strangers, max_agents,
                   speed_mult, dcall>>

\* the speed handlers change speed_mult and nothing else
SpeedFrame ==
    UNCHANGED <<bvars, now, ret, history, subject_count, mode, opener,
                div_enabled, spc, timer, wpc, wname, wcontent, wattempt,
                in_flight, status, attempts, strangers, max_agents,
                ctl_paused, dcall>>

\* a speed handler that restarts the tick timer at the new interval
OnSpeedChangedReschedules ==
    /\ spc # "init"
    /\ \E delta \in {-SPEED_STEP, SPEED_STEP} :
         speed_mult' = Max(SPEED_MIN, Min(SPEED_MAX, speed_mult + delta))
    /\ timer' = IF spc = "open"
                  THEN now + CeilDiv(tick_interval * SpeedUnit, speed_mult')
                  ELSE timer
    /\ UNCHANGED <<bvars, now, ret, history, subject_count, mode, opener,
                   div_enabled, spc, wpc, wname, wcontent, wattempt,
                   in_flight, status, attempts, strangers, max_agents,
                   ctl_paused, dcall>>

\* on_speed_changed, posted by the [-] and [+] buttons with delta -0.25 / 0.25
OnSpeedChanged ==
    /\ spc # "init"
    /\ \E delta \in {-SPEED_STEP, SPEED_STEP} :
         speed_mult' = Max(SPEED_MIN, Min(SPEED_MAX, speed_mult + delta))
    /\ SpeedFrame

\* action_speed_up
ActionSpeedUp ==
    /\ spc # "init"
    /\ speed_mult' = Min(SPEED_MAX, speed_mult + SPEED_STEP)
    /\ SpeedFrame

\* a speed-down action without the lower bound
ActionSpeedDownUnbounded ==
    /\ spc # "init"
    /\ speed_mult' = speed_mult - SPEED_STEP
    /\ SpeedFrame

\* action_speed_down
ActionSpeedDown ==
    /\ spc # "init"
    /\ speed_mult' = Max(SPEED_MIN, speed_mult - SPEED_STEP)
    /\ SpeedFrame

\* the turn number on_stranger_message gives its message
StrangerTurn == turn_number + 1

\* a stranger handler that records the stranger as a speaker
OnStrangerMessageRecorded ==
    /\ spc # "init"
    /\ strangers < MaxStrangers
    /\ \E text \in StrangerTexts :
         history' = HistoryAppend(history,
            [agent_name |-> STRANGER, content |-> text,
             turn_number |-> StrangerTurn])
    /\ strangers' = strangers + 1
    /\ turn_number' = turn_number + 1
    /\ UNCHANGED <<last_spoke, last_spoke_turn, pair_history, paused, xvars,
                   now, ret, subject_count, mode, opener, div_enabled,
                   spc, timer, wpc, wname, wcontent, wattempt, in_flight,
                   status, attempts>>

\* a stranger handler that starts a new subject
OnStrangerMessageNewSubject ==
    /\ spc # "init"
    /\ strangers < MaxStrangers
    /\ \E text \in StrangerTexts :
         history' = HistoryAppend(history,
            [agent_name |-> STRANGER, content |-> text,
             turn_number |-> StrangerTurn])
    /\ strangers' = strangers + 1
    /\ subject_count' = 0
    /\ UNCHANGED <<bvars, xvars, now, ret, mode, opener, div_enabled,
                   spc, timer, wpc, wname, wcontent, wattempt, in_flight,
                   status, attempts>>

\* on_stranger_message
OnStrangerMessage ==
    /\ spc # "init"
    /\ strangers < MaxStrangers
    /\ \E text \in StrangerTexts :
         history' = HistoryAppend(history,
            [agent_name |-> STRANGER, content |-> text,
             turn_number |-> StrangerTurn])
    /\ strangers' = strangers + 1
    /\ UNCHANGED <<bvars, xvars, now, ret, subject_count, mode, opener, div_enabled,
                   spc, timer, wpc, wname, wcontent, wattempt, in_flight,
                   status, attempts>>

Next ==
    \/ Advance
    \/ OnMount
    \/ StartupGenerate
    \/ StartupDone
    \/ OnModelReady
    \/ Tick
    \/ WorkerBuild
    \/ WorkerGenerate
    \/ WorkerGenerateDone
    \/ WorkerDiversity
    \/ WorkerRegenDone
    \/ WorkerLogRegeneration
    \/ WorkerRecord
    \/ WorkerCommit
    \/ OnEmptyResponse
    \/ DisplayMessage
    \/ ActionTogglePause
    \/ OnStrangerMessage

Spec == Init /\ [][Next]_vars

\* the steps of a dispatched turn: the worker thread runs, every backend call
\* returns, and the main thread runs the callbacks posted by call_from_thread
TurnStep ==
    \/ WorkerBuild
    \/ WorkerGenerate
    \/ WorkerGenerateDone
    \/ WorkerDiversity
    \/ WorkerRegenDone
    \/ WorkerLogRegeneration
    \/ WorkerRecord
    \/ WorkerCommit
    \/ OnEmptyResponse
    \/ DisplayMessage

\* the application under a scheduler that lets a dispatched turn proceed
SpecLive == Init /\ [][Next]_vars /\ WF_vars(TurnStep)

(***************************************************************************)
(* SpecTopics: _generate_topic from the return of the backend call on, as a *)
(* function of _recent_topics and the text returned (app.py:404-410).      *)
(* dcall holds _recent_topics, the topic of the last call and the number   *)
(* of calls.                                                               *)
(***************************************************************************)
RECENT_TOPICS_MAX == 5

\* str.strip("'\""): quote characters removed at both ends
RECURSIVE StripQuotesLeft(_)
StripQuotesLeft(text) ==
    IF text # <<>> /\ text[1] \in {"'", "\""}
      THEN StripQuotesLeft(Tail(text))
      ELSE text
RECURSIVE StripQuotesRight(_)
StripQuotesRight(text) ==
    IF text # <<>> /\ text[Len(text)] \in {"'", "\""}
      THEN StripQuotesRight(SubSeq(text, 1, Len(text) - 1))
      ELSE text
StripQuotes(text) == StripQuotesRight(StripQuotesLeft(text))

\* topic = result.content.strip().strip("'\"")
TopicOf(content) == StripQuotes(Strip(content))

\* if topic: append; if len(self._recent_topics) > 5: pop(0)
RecentTopicsAdd(recent, topic) ==
    IF topic = EmptyText THEN recent
    ELSE LET grown == Append(recent, topic) IN
         IF Len(grown) > RECENT_TOPICS_MAX THEN Tail(grown) ELSE grown

\* what the backend returns for the topic prompt
TopicContents ==
    {<<"x">>, <<"'", "x", "'">>, <<" ", "y", " ">>, <<" ">>, <<"'", "'">>}

TopicReturns ==
    /\ dcall.calls < MaxTopicCalls
    /\ \E content \in TopicContents :
         dcall' = [called |-> TRUE,
                   calls |-> dcall.calls + 1,
                   topic |-> TopicOf(content),
                   recent_topics |->
                       RecentTopicsAdd(dcall.recent_topics, TopicOf(content))]
    /\ UNCHANGED <<bvars, now, ret, history, subject_count, mode, opener,
                   div_enabled, spc, timer, wpc, wname, wcontent, wattempt,
                   in_flight, status, attempts, strangers, max_agents,
                   speed_mult, ctl_paused>>

NextTopics == TopicReturns

\* self._recent_topics: list[str] = []
InitTopics ==
    /\ InitState /\ mode = "local" /\ div_enabled /\ max_agents = Len(Agents)
    /\ dcall = [called |-> FALSE, calls |-> 0, topic |-> EmptyText,
                recent_topics |-> <<>>]

SpecTopics == InitTopics /\ [][NextTopics]_vars

(***************************************************************************)
(* SpecClean: _clean_response as a function of the raw text.  A text is a  *)
(* sequence of characters of five kinds: an upper-case letter, a digit (a  *)
(* word character that is not upper case), a colon, a space and a newline. *)
(***************************************************************************)
CleanChars == {"A", "1", ":", " ", "\n"}
\* [A-Z]
UPPER == {"A"}
\* \w
WORD == {"A", "1"}
\* \d
DIGIT == {"1"}
\* \s
WS == {" ", "\n"}

\* the last index of the run of characters of cls that starts at i (i - 1 when
\* the run is empty): where a greedy cls* ends
RECURSIVE RunEnd(_, _, _)
RunEnd(text, i, cls) ==
    IF i <= Len(text) /\ text[i] \in cls THEN RunEnd(text, i + 1, cls)
    ELSE i - 1

\* str.strip()
StripWs(text) ==
    LET first == RunEnd(text, 1, WS) + 1
        kept  == {i \in first..Len(text) : text[i] \notin WS}
    IN  IF kept = {} THEN <<>>
        ELSE SubSeq(text, first, CHOOSE i \in kept : \A j \in kept : j <= i)

\* the index of the colon of a match of ^[A-Z][\w]*(\s+\d+)?: at the start of
\* text, 0 when there is none.  No character class of the pattern overlaps
\* the next one, so each greedy run ends where the only match can go on.
LeadingColon(text) ==
    IF text = <<>> \/ text[1] \notin UPPER THEN 0
    ELSE LET w == RunEnd(text, 2, WORD)
             s == RunEnd(text, w + 1, WS)
             d == RunEnd(text, s + 1, DIGIT)
         IN  IF w < Len(text) /\ text[w + 1] = ":" THEN w + 1
             ELSE IF s > w /\ d > s /\ d < Len(text) /\ text[d + 1] = ":"
                    THEN d + 1
             ELSE 0

\* re.sub(r'^[A-Z][\w]*(\s+\d+)?:\s*', '', cleaned, count=1) done twice
StripPrefixTwice(text) ==
    LET once == IF LeadingColon(text) = 0 THEN text
                ELSE SubSeq(text, RunEnd(text, LeadingColon(text) + 1, WS) + 1,
                            Len(text))
    IN  IF LeadingColon(once) = 0 THEN once
        ELSE SubSeq(once, RunEnd(once, LeadingColon(once) + 1, WS) + 1,
                    Len(once))

\* re.sub(r'^[A-Z][\w]*(\s+\d+)?:\s*', '', cleaned, count=1)
StripPrefix(text) ==
    IF LeadingColon(text) = 0 THEN text
    ELSE SubSeq(text, RunEnd(text, LeadingColon(text) + 1, WS) + 1, Len(text))

\* \n\s*[A-Z][\w\s]*: matches at index p of text
MidMatchAt(text, p) ==
    /\ text[p] = "\n"
    /\ LET q == RunEnd(text, p + 1, WS) + 1 IN
       /\ q <= Len(text)
       /\ text[q] \in UPPER
       /\ LET r == RunEnd(text, q + 1, WORD \cup WS) + 1 IN
          r <= Len(text) /\ text[r] = ":"

\* re.search(r'\n\s*[A-Z][\w\s]*:', cleaned): the start of the leftmost match,
\* 0 for None
MidMatchStart(text) ==
    LET starts == {p \in DOMAIN text : MidMatchAt(text, p)}
    IN  IF starts = {} THEN 0
        ELSE CHOOSE p \in starts : \A q \in starts : p <= q

\* _clean_response
CleanResponse(name, text) ==
    LET cleaned == StripWs(StripPrefix(StripWs(text)))
        match   == MidMatchStart(cleaned)
    IN  IF match # 0 THEN StripWs(SubSeq(cleaned, 1, match - 1))
        ELSE cleaned

\* the raw texts of a backend call
CleanTexts == UNION {[1..n -> CleanChars] : n \in 0..MaxCleanLen}

CleanReturns ==
    /\ ~dcall.called
    /\ dcall' = [called |-> TRUE, name |-> dcall.name, text |-> dcall.text,
                 cleaned |-> CleanResponse(dcall.name, dcall.text)]
    /\ UNCHANGED <<bvars, now, ret, history, subject_count, mode, opener,
                   div_enabled, spc, timer, wpc, wname, wcontent, wattempt,
                   in_flight, status, attempts, strangers, max_agents,
                   speed_mult, ctl_paused>>

NextClean == CleanReturns

InitClean ==
    /\ InitState /\ mode = "local" /\ div_enabled /\ max_agents = Len(Agents)
    /\ dcall \in [called : {FALSE}, name : {Agents[1]}, text : CleanTexts]

SpecClean == InitClean /\ [][NextClean]_vars

(***************************************************************************)
(* SpecEngine: the engines between generate, called by a worker thread,    *)
(* and unload, called by action_quit on the main thread.  dcall holds the  *)
(* engines whose model or client is set (loaded), the engine the worker    *)
(* called and where its call stands (gpc), and how many engines            *)
(* action_quit has unloaded.  in_flight holds the engines whose lock the   *)
(* worker holds.                                                           *)
(***************************************************************************)
\* self.engines.values() then self.house_engine in API mode, self.engine in
\* local mode: the order in which action_quit unloads them
UnloadOrder == IF mode = "api" THEN Agents \o <<"house">> ELSE <<"engine">>

EngineSet == {UnloadOrder[i] : i \in DOMAIN UnloadOrder}

EngineFrame ==
    UNCHANGED <<bvars, now, ret, history, subject_count, mode, opener,
                div_enabled, spc, timer, wpc, wname, wcontent, wattempt,
                status, attempts, strangers, max_agents, speed_mult,
                ctl_paused>>

\* generate up to the lock: if self.llm is None (self._client is None):
\* raise RuntimeError; params = self._merge_params(overrides)
EngGenerate ==
    /\ dcall.gpc = "idle"
    /\ dcall.calls < MaxEngineCalls
    /\ \E e \in EngineSet :
         dcall' = [dcall EXCEPT !.called = TRUE, !.engine = e,
                     !.gpc = IF e \in dcall.loaded THEN "checked" ELSE "raised"]
    /\ UNCHANGED in_flight
    /\ EngineFrame

\* with self._lock
EngAcquire ==
    /\ dcall.gpc = "checked"
    /\ GenerateBegin(dcall.engine)
    /\ dcall' = [dcall EXCEPT !.gpc = "locked"]
    /\ EngineFrame

\* _do_generate up to self.llm.create_chat_completion(...) or
\* self._client.messages.create(...): on None the attribute access raises
\* AttributeError and the with statement releases the lock
EngBackend ==
    /\ dcall.gpc = "locked"
    /\ IF dcall.engine \in dcall.loaded
         THEN /\ dcall' = [dcall EXCEPT !.gpc = "backend"]
              /\ UNCHANGED in_flight
         ELSE /\ dcall' = [dcall EXCEPT !.gpc = "crashed"]
              /\ GenerateEnd(dcall.engine)
    /\ EngineFrame

\* the backend call returns and generate with it
EngReturn ==
    /\ dcall.gpc = "backend"
    /\ GenerateEnd(dcall.engine)
    /\ dcall' = [dcall EXCEPT !.gpc = "idle", !.calls = dcall.calls + 1]
    /\ EngineFrame

\* action_quit: the next eng.unload().  InferenceEngine.unload sets llm to
\* None with the lock held; APIEngine.unload sets _client to None without it.
EngUnload ==
    /\ dcall.unloaded < Len(UnloadOrder)
    /\ LET e == UnloadOrder[dcall.unloaded + 1] IN
       /\ mode = "local" => e \notin in_flight
       /\ dcall' = [dcall EXCEPT !.loaded = dcall.loaded \ {e},
                                 !.unloaded = dcall.unloaded + 1]
    /\ UNCHANGED in_flight
    /\ EngineFrame

NextEngine == EngGenerate \/ EngAcquire \/ EngBackend \/ EngReturn \/ EngUnload

\* after _startup: every engine loaded, no call made
InitEngine ==
    /\ InitState /\ div_enabled /\ max_agents = Len(Agents)
    /\ dcall = [called |-> FALSE, engine |-> NoOne, loaded |-> EngineSet,
                gpc |-> "idle", calls |-> 0, unloaded |-> 0]

SpecEngine == InitEngine /\ [][NextEngine]_vars

(***************************************************************************)
(* SpecUI: the application with every handler of the control bar and every *)
(* key binding, over a clock bounded like that of SpecSched                *)
(***************************************************************************)
AdvanceUI ==
    /\ now < StartTime + MaxAdvanceUI
    /\ now' = now + 1
    /\ UNCHANGED <<bvars, ret, avars>>

NextUI ==
    \/ AdvanceUI
    \/ OnMount
    \/ StartupGenerate
    \/ StartupDone
    \/ OnModelReady
    \/ Tick
    \/ WorkerBuild
    \/ WorkerGenerate
    \/ WorkerGenerateDone
    \/ WorkerDiversity
    \/ WorkerRegenDone
    \/ WorkerLogRegeneration
    \/ WorkerRecord
    \/ WorkerCommit
    \/ OnEmptyResponse
    \/ DisplayMessage
    \/ ActionTogglePause
    \/ OnPauseToggled
    \/ OnSpeedChanged
    \/ ActionSpeedUp
    \/ ActionSpeedDown
    \/ OnStrangerMessage

\* a local-mode application with diversity checking and max_agents = 2
InitUI == Init /\ mode = "local" /\ div_enabled /\ max_agents = 2

SpecUI == InitUI /\ [][NextUI]_vars

(***************************************************************************)
(* SpecSpeed: the application with the speed handlers only and diversity   *)
(* checking off, over a clock long enough for a tick scheduled at the      *)
(* lowest speeds to fire after a turn                                      *)
(***************************************************************************)
AdvanceSpeed ==
    /\ now < StartTime + MaxAdvanceSpeed
    /\ now' = now + 1
    /\ UNCHANGED <<bvars, ret, avars>>

NextSpeed ==
    \/ AdvanceSpeed
    \/ OnMount
    \/ StartupGenerate
    \/ StartupDone
    \/ OnModelReady
    \/ Tick
    \/ WorkerBuild
    \/ WorkerGenerate
    \/ WorkerGenerateDone
    \/ WorkerRecord
    \/ WorkerCommit
    \/ OnEmptyResponse
    \/ DisplayMessage
    \/ OnSpeedChanged
    \/ ActionSpeedUp
    \/ ActionSpeedDown

\* a local-mode application without diversity checking, of 1 or 2 personas
InitSpeed == Init /\ mode = "local" /\ ~div_enabled /\ max_agents \in {1, 2}

SpecSpeed == InitSpeed /\ [][NextSpeed]_vars

(***************************************************************************)
(* Properties                                                              *)
(***************************************************************************)
\* the last MAX_PAIR_STREAK entries of the pair history exist and each joins
\* exactly the two names a and b, in either direction
TailIsDyad(a, b) ==
    /\ Len(pair_history) >= 2
    /\ \A i \in {Len(pair_history) - 1, Len(pair_history)} :
          {pair_history[i][1], pair_history[i][2]} = {a, b}

OutOfCooldown(a) == now - last_spoke[a] >= cooldown
Names(text, a) == Contains(LowerStr(text), LowerStr(Spell[a]))

\* C1: read in history order, the turn_number of each utterance is the
\* previous one's plus 1 (strictly increasing, no duplicates, no gaps).
\* Stated for the sessions whose history begins with the opener.
C1_TurnNumbersStrictNoGaps ==
    (history # <<>> /\ history[1].agent_name = BARTENDER) =>
        \A i \in 1..(Len(history) - 1) :
            history[i + 1].turn_number = history[i].turn_number + 1

\* C2: a persona select_next returns by another path than the deterministic
\* addressing path has been silent for at least the cooldown.
C2_WeightedRespectsCooldown ==
    (ret.called /\ ret.name # NoOne /\ ret.path # "addressed")
        => now - last_spoke[ret.name] >= cooldown

C2_Witness ==
    /\ ret.called
    /\ ret.path = "weighted"
    /\ \E a \in AgentSet : now - last_spoke[a] < cooldown
    /\ \E a \in AgentSet : last_spoke[a] # 0 /\ now - last_spoke[a] >= cooldown

\* C3: when the last message addresses a candidate, select_next returns it
\* through the deterministic path unless the last 2 pair-history entries both
\* join {last speaker, candidate}; then the result is the weighted winner among
\* the personas out of cooldown.
C3_PairLock ==
    LET cand == FindAddressed(ret.last) IN
    (ret.called /\ ~paused /\ cand # NoOne) =>
        IF TailIsDyad(ret.last.agent_name, cand)
          THEN /\ ret.path = "weighted"
               /\ OutOfCooldown(ret.name)
               /\ \E rnd \in Rands :
                     ret.name = Winner(GetEligible, ret.last, rnd)
          ELSE /\ ret.path = "addressed"
               /\ ret.name = cand

C3_Witness ==
    LET cand == FindAddressed(ret.last)
        n    == Len(pair_history) IN
    /\ ret.called /\ ~paused /\ cand # NoOne
    /\ TailIsDyad(ret.last.agent_name, cand)
    /\ pair_history[n - 1] = <<ret.last.agent_name, cand>>
    /\ pair_history[n] = <<cand, ret.last.agent_name>>
    /\ ret.path = "weighted"
    /\ ret.name # cand

\* C4: not paused, the last message names a persona B other than its speaker,
\* B is out of cooldown, no third out-of-cooldown persona is named and the pair
\* is not locked: select_next returns B, whatever random.random() gave.
C4_Addressed ==
    \A b \in AgentSet :
        ( /\ ret.called /\ ~paused /\ ret.last # NoMsg
          /\ b # ret.last.agent_name
          /\ Names(ret.last.content, b)
          /\ OutOfCooldown(b)
          /\ \A c \in AgentSet \ {b, ret.last.agent_name} :
                ~(Names(ret.last.content, c) /\ OutOfCooldown(c))
          /\ ~TailIsDyad(ret.last.agent_name, b) )
        => (ret.name = b /\ ret.path = "addressed")

\* B is returned although no value of the random term makes B the weighted winner
C4_Witness ==
    /\ ret.called /\ ~paused
    /\ ret.last.agent_name \in AgentSet
    /\ ret.path = "addressed"
    /\ ret.last.content = TxtBo
    /\ ret.name = "Bo"
    /\ \A rnd \in Rands : Winner(GetEligible, ret.last, rnd) # ret.name

\* C5: a select_next call made while paused returns none and changes none of
\* last_spoke, last_spoke_turn, the pair history, the turn counter (nor paused).
C5_PausedSelectIsNoOp ==
    [][(paused /\ ~ret.called /\ ret'.called) =>
          (ret'.name = NoOne /\ UNCHANGED bvars)]_vars

\* a paused call on a message that would otherwise be answered deterministically
C5_Witness ==
    /\ ret.called /\ paused
    /\ turn_number > 0 /\ pair_history # <<>>
    /\ \E b \in AgentSet \ {ret.last.agent_name} :
          Names(ret.last.content, b) /\ OutOfCooldown(b)

\* C6: record_spoke is called exactly once per turn attempt, for the selected
\* persona, before the next tick is scheduled: while the worker is on its way
\* to record_spoke the calls so far (turn_number) are one short of the attempts
\* dispatched; once it is past it, or has ended in any way, they are equal;
\* whenever a tick is pending the worker is gone and the last attempt's
\* persona is the one recorded last.
C6_RecordSpokeOncePerAttempt ==
    /\ (wpc \in {"build", "gen_ready", "gen", "div", "regen",
                 "log_regen", "record"}
          => turn_number = attempts - 1)
    /\ (wpc \in {"commit", "cb_empty", "cb_display", "idle", "failed"}
          => turn_number = attempts)
    /\ (timer # 0 =>
          /\ wpc = "idle"
          /\ turn_number = attempts
          /\ (attempts > 0 => last_spoke_turn[wname] = turn_number - 1))

\* C7: within one turn the regeneration calls started, the one in flight
\* included, never exceed max_retries; the loop is left once they reach it.
C7_RegenerationBounded ==
    wattempt + (IF wpc = "regen" THEN 1 ELSE 0) <= max_retries

\* the retry budget used up with a non-empty candidate
C7_Witness ==
    /\ wpc = "log_regen"
    /\ wattempt = max_retries
    /\ wcontent # EmptyText

\* C8: at most one backend call is in flight.
C8_OneGenerationInFlight == Cardinality(in_flight) <= 1

\* a regeneration call of the first turn in flight, in API mode
C8_Witness ==
    /\ mode = "api"
    /\ wpc = "regen"
    /\ in_flight = {wname}
    /\ attempts = 1

\* C9: no step of the worker thread changes the history or the scheduler state.
C9_MutatedOnlyOnMainThread ==
    [][(history' # history \/ bvars' # bvars)
          => ~(wpc \in WorkerPcs /\ wpc' # wpc)]_vars

\* C10: every step leaves the history as it is or adds one utterance at its end.
C10_HistoryAppendOnly ==
    [][\/ history' = history
       \/ /\ Len(history') = Len(history) + 1
          /\ SubSeq(history', 1, Len(history)) = history]_vars

\* a history grown by the seed, a stranger and a persona
C10_Witness ==
    /\ Len(history) >= 3
    /\ \E i \in DOMAIN history : history[i].agent_name = STRANGER
    /\ \E i \in DOMAIN history : history[i].agent_name \in AgentSet
    /\ \E i \in DOMAIN history : history[i].agent_name = BARTENDER

\* the utterance the worker commits for attempt number k carries turn_number k
\* (record_spoke has run k times when turn = self.bartender.turn_number is read)
UtteranceOf(k) ==
    {i \in DOMAIN history :
        history[i].agent_name \in AgentSet /\ history[i].turn_number = k}

\* the worker of the last attempt is gone, by returning or by an exception
WorkerEnded == attempts > 0 /\ wpc \in {"idle", "failed"}

\* C11: when a turn attempt has ended with empty final text, no utterance of
\* that attempt is in the history, record_spoke has been applied for the
\* selected persona (last-spoke time refreshed, turn counter advanced), the
\* persona's status is back to idle, and a next tick is scheduled, no error
\* having ended the worker.
C11_EmptyTurnMovesOn ==
    (WorkerEnded /\ wcontent = EmptyText) =>
        /\ UtteranceOf(attempts) = {}
        /\ turn_number = attempts
        /\ last_spoke_turn[wname] = attempts - 1
        /\ last_spoke[wname] # 0
        /\ status[wname] = "idle"
        /\ wpc = "idle"
        /\ timer # 0

\* C12: the regeneration loop never replaces a non-empty candidate by an empty
\* one, and once the worker of a turn that used up its retry budget has ended,
\* the turn's utterance is in the history with the last candidate as content.
C12_LastNonEmptyCandidateCommitted ==
    /\ [][(wpc \in {"div", "regen"} /\ wcontent # EmptyText)
            => wcontent' # EmptyText]_vars
    /\ []((WorkerEnded /\ wattempt = max_retries) =>
            /\ wcontent # EmptyText
            /\ \E i \in UtteranceOf(attempts) : history[i].content = wcontent)

\* C13: the persistence call that logs a regeneration never aborts the turn:
\* whatever the call does, the worker goes on to record_spoke (and from there
\* to the commit and to the callback that schedules the next tick).
C13_PersistenceFailureIsolated ==
    [][wpc = "log_regen" => wpc' \in {"log_regen", "record"}]_vars

\* C14: pausing does not cancel the turn in flight and stops the dispatch of
\* new ones: no step taken by the worker while the flag is set ends the turn
\* short of its callback, and no step taken while the flag is set dispatches a
\* generation.
C14_PauseOnlyAtTick ==
    [][paused =>
          /\ attempts' = attempts
          /\ (wpc \in WorkerPcs => wpc' \in WorkerPcs \cup {"cb_empty", "cb_display"})
      ]_vars

\* a step of _tick: the pending timer is consumed
TickStep == timer # 0 /\ timer' # timer

\* C15: a tick's select_next returns none exactly when no persona of the
\* roster is out of cooldown (a paused tick returns before calling it), and
\* otherwise a persona of the roster, which is dispatched.  A tick that got
\* none dispatches nothing, leaves history and scheduler state as they are and
\* schedules one later tick.
C15_NoneExactlyWhenNoOneEligible ==
    [][(TickStep /\ ~paused) =>
          /\ ret'.called
          /\ (ret'.name = NoOne <=> GetEligible = <<>>)
          /\ IF ret'.name = NoOne
               THEN /\ attempts' = attempts /\ wpc' = wpc /\ status' = status
                    /\ history' = history
                    /\ bvars' = bvars
                    /\ timer' > now
               ELSE /\ ret'.name \in RosterSet
                    /\ attempts' = attempts + 1
                    /\ wname' = ret'.name
      ]_vars

\* a tick found the whole roster in cooldown and the next one is pending
C15_Witness ==
    /\ ret.called /\ ret.path = "none"
    /\ ~paused
    /\ wpc = "idle"
    /\ timer > now
    /\ GetEligible = <<>>

\* C16: the pair history never holds more than 20 entries.  A step that
\* changes it appends one pair, whose second name is the persona just recorded,
\* and, when that makes 21, keeps the last 10 of the 21 in their order; so the
\* last entry is the pair recorded last.
C16_PairHistoryBounded ==
    [][/\ Len(pair_history') <= 20
       /\ (pair_history' # pair_history =>
             \E p \in LastSpeakers \X AgentSet :
                LET grown == Append(pair_history, p) IN
                /\ last_spoke_turn'[p[2]] = turn_number
                /\ turn_number' = turn_number + 1
                /\ pair_history' =
                      IF Len(grown) > 20 THEN SubSeq(grown, 12, 21) ELSE grown
                /\ pair_history'[Len(pair_history')] = p)
      ]_vars

\* the history has been trimmed by its 21st append
C16_Witness ==
    /\ turn_number >= 21
    /\ Len(pair_history) = 10
    /\ pair_history[10][2] = LastRecorded

\* C17: on an empty history compute_diversity_score returns score 1.0,
\* passed and no problem, for every response, speaker, window and threshold not
\* above 1.0.
C17_EmptyHistoryScoresOne ==
    (dcall.called /\ dcall.history = <<>> /\ dcall.threshold <= 1000) =>
        /\ dcall.result.score = 1000
        /\ dcall.result.passed
        /\ dcall.result.problems = <<>>

C17_Witness ==
    /\ dcall.called /\ dcall.history = <<>>
    /\ dcall.threshold = 1000
    /\ dcall.response = TxtPhraseLoud
    /\ dcall.result.passed

\* the positions of the call's history that lie in its window (the last
\* dcall.window messages)
InWindow == {i \in DOMAIN dcall.history : i > Len(dcall.history) - dcall.window}

\* the words of the response, lowercased and without punctuation
PhraseWords == Split(StripPunctuation(LowerStr(dcall.response)))

\* the response is four words long and an utterance of the window holds these
\* four words, as written, one after the other
FourWordPhraseRepeated ==
    /\ dcall.called
    /\ Len(Split(dcall.response)) = 4
    /\ \E i \in InWindow :
          Contains(Split(dcall.history[i].content), Split(dcall.response))

\* the overlap ratio is 1.0 and the phrase is among the repeated phrases and
\* in the problem that lists them
PhraseReported ==
    /\ dcall.result.overlap_ratio.num = dcall.result.overlap_ratio.den
    /\ PhraseWords \in dcall.result.repeated_ngrams
    /\ \E k \in DOMAIN dcall.result.problems :
          /\ dcall.result.problems[k][1] = "Repeated phrases"
          /\ PhraseWords \in dcall.result.problems[k][2]

\* C18 as stated: a response that is a 4-word phrase found verbatim in an
\* utterance of the window has overlap ratio 1.0 and the phrase is reported.
C18_FourWordPhraseAnyWords == FourWordPhraseRepeated => PhraseReported

\* C18: a response that is a 4-word phrase found verbatim in an utterance of
\* the window, none of its words being a stop word, has overlap ratio 1.0, and
\* the phrase is among the repeated phrases and in the problems list.
C18_FourWordPhraseNoStopWords ==
    (FourWordPhraseRepeated
       /\ \A k \in DOMAIN PhraseWords : PhraseWords[k] \notin STOP_WORDS)
    => PhraseReported

\* "b c d e" against a history whose window holds "g b c d e"
C18_Witness ==
    /\ FourWordPhraseRepeated
    /\ dcall.response = TxtPhrase
    /\ Len(dcall.history) > dcall.window
    /\ Cardinality(dcall.result.repeated_ngrams) = 3

\* how often the speaker has used the response's opener signature in the window
OpenerUses ==
    Cardinality({i \in InWindow :
        /\ dcall.history[i].agent_name = dcall.agent_name
        /\ GetOpener(dcall.history[i].content) = GetOpener(dcall.response)})

\* the result flags the opener: formulaic_opener is set and a problem names it
OpenerFlagged ==
    /\ dcall.result.formulaic_opener # NoOpener
    /\ \E k \in DOMAIN dcall.result.problems :
          dcall.result.problems[k][1] = "Repeated opener"

\* C19 as stated: the opener is flagged exactly when the same speaker has used
\* the identical six-word signature at least 2 times within the window.
C19_OpenerFlaggedIffTwoUses ==
    dcall.called => (OpenerFlagged <=> OpenerUses >= 2)

\* C19: for a response whose opener signature is not empty, the opener is
\* flagged exactly when the same speaker has used the identical six-word
\* signature at least 2 times within the window (the third use is flagged, the
\* second is not; other speakers and older messages do not count).
C19_NonEmptyOpenerFlaggedIffTwoUses ==
    (dcall.called /\ GetOpener(dcall.response) # <<>>)
        => (OpenerFlagged <=> OpenerUses >= 2)

\* a third use is flagged: two uses by the speaker inside the window, with the
\* same first six words and another seventh, and an older message outside it
C19_Witness ==
    /\ dcall.called
    /\ dcall.response = TxtSeven
    /\ OpenerFlagged
    /\ OpenerUses = 2
    /\ Len(dcall.history) > dcall.window
    /\ dcall.history[1].agent_name # dcall.agent_name

\* the step in which _generate_turn calls record_spoke
RecordStep == wpc = "record" /\ wpc' # "record"

\* C20 as stated: every field of the scheduler state, the paused flag
\* included, changes only in the step that calls record_spoke.
C20_SchedulerStateOnlyByRecordSpoke ==
    [][bvars' # bvars => RecordStep]_vars

\* C20: the last-spoke times and turns, the pair history and the turn counter
\* change only in the step that calls record_spoke, which leaves the paused
\* flag alone; the paused flag changes only in a pause handler (a step that
\* is no tick, no worker step, no speed change and no stranger message);
\* select_next, get_score, the speed handlers and the stranger handler leave
\* every field unchanged.
C20_OnlyPausedChangesOutsideRecordSpoke ==
    [][/\ <<last_spoke, last_spoke_turn, turn_number, pair_history>>'
             # <<last_spoke, last_spoke_turn, turn_number, pair_history>>
          => RecordStep
       /\ RecordStep => paused' = paused
       /\ paused' # paused =>
             UNCHANGED <<now, ret, history, subject_count, mode, opener,
                         div_enabled, spc, timer, wpc, wname, wcontent,
                         wattempt, in_flight, status, attempts, strangers,
                         max_agents, speed_mult>>
       /\ (ret' # ret \/ speed_mult' # speed_mult \/ strangers' # strangers
             \/ (wpc' # wpc /\ ~RecordStep))
          => bvars' = bvars]_vars

\* a turn was recorded, a stranger has spoken, the speed was changed,
\* select_next was called and the bar is paused by the Pause button
C20_Witness ==
    /\ turn_number >= 1
    /\ strangers >= 1
    /\ speed_mult # SpeedUnit
    /\ ret.called
    /\ paused
    /\ ctl_paused

\* C21: record_spoke(speaker, responded_to) sets the speaker's last-spoke time
\* to now and its last-spoke turn to the turn counter, adds exactly 1 to the
\* turn counter, appends the pair (responded_to, speaker) to the pair history
\* exactly when responded_to is given (keeping the last 10 entries when that
\* makes 21), and leaves the entries of every other persona unchanged.
C21_RecordSpokeEffect ==
    [][now' = now /\ dcall'.boost_name = NoOne =>
        LET speaker == dcall'.agent_name
            responded_to == dcall'.last_speaker
            grown == Append(pair_history, <<responded_to, speaker>>) IN
        /\ last_spoke'[speaker] = now
        /\ last_spoke_turn'[speaker] = turn_number
        /\ turn_number' = turn_number + 1
        /\ \A b \in AgentSet \ {speaker} :
              /\ last_spoke'[b] = last_spoke[b]
              /\ last_spoke_turn'[b] = last_spoke_turn[b]
        /\ IF responded_to # NoOne
             THEN pair_history' =
                    IF Len(grown) > 20 THEN SubSeq(grown, 12, 21) ELSE grown
             ELSE pair_history' = pair_history
      ]_vars

\* a call without responded_to, after a call with it, later on the clock than
\* the last call of another persona
C21_Witness ==
    /\ dcall.called
    /\ dcall.last_speaker = NoOne
    /\ pair_history # <<>>
    /\ last_spoke[dcall.agent_name] = now
    /\ \E b \in AgentSet \ {dcall.agent_name} :
          last_spoke[b] # 0 /\ last_spoke[b] < now

\* C22: the loop never stops by itself.  Once the bar is open, whenever no
\* tick is pending (a tick has fired and dispatched a turn) a next tick is
\* eventually scheduled, every backend call of the turn returning; and every
\* tick scheduled after a tick is due tick_interval / speed_mult after the step
\* that schedules it.
C22_LoopNeverStops ==
    /\ (spc = "open" /\ timer = 0) ~> (timer # 0)
    /\ [][(spc = "open" /\ timer' # timer /\ timer' # 0) =>
            timer' = now + CeilDiv(tick_interval * SpeedUnit, speed_mult)]_vars

\* C23: a tick that fires while the scheduler is paused does not call
\* select_next, marks no persona as thinking, dispatches no generation, leaves
\* the history, the scheduler state and the subject counter unchanged, and
\* schedules exactly one next tick, due tick_interval / speed_mult later.
C23_PausedTickOnlyReschedules ==
    [][(TickStep /\ paused) =>
          /\ ret' = ret
          /\ status' = status
          /\ UNCHANGED <<wpc, wname, wcontent, wattempt, attempts, in_flight>>
          /\ history' = history
          /\ bvars' = bvars
          /\ subject_count' = subject_count
          /\ timer' = now + CeilDiv(tick_interval * SpeedUnit, speed_mult)
      ]_vars

\* the first tick fired while the bar was paused, at a changed speed:
\* select_next was never called and the next tick is scheduled
C23_Witness ==
    /\ paused
    /\ spc = "open"
    /\ ~ret.called
    /\ timer > StartTime + tick_interval
    /\ speed_mult # SpeedUnit
    /\ attempts = 0

\* a regeneration call is made: the worker enters the backend from the loop
RegenCall == wpc # "regen" /\ wpc' = "regen"

\* C24: a regeneration call is made only from the diversity loop, for a
\* non-empty candidate, with diversity checking enabled.  The loop is entered
\* exactly when checking is enabled and the first cleaned text is not empty;
\* a regeneration that returns empty text ends the loop; and once the loop is
\* left (the candidate passed, or the cap was reached) the turn makes no
\* further regeneration call.
C24_RegenerationOnlyInLoop ==
    /\ [](wpc \in {"div", "regen"} => div_enabled /\ wcontent # EmptyText)
    /\ [][/\ RegenCall => wpc = "div"
          /\ (wpc = "gen" /\ wpc' # "gen") =>
                (wpc' = "div" <=> (div_enabled /\ wcontent' # EmptyText))
          /\ (wpc = "regen" /\ wpc' # "regen" /\ wcontent' = EmptyText) =>
                wpc' \in {"record", "log_regen"}
          /\ (wpc = "div" /\ wpc' \notin {"div", "regen"}) =>
                wpc' \in {"record", "log_regen"}
          /\ wpc \notin {"gen", "div", "regen"} => wpc' \notin {"div", "regen"}
         ]_vars

\* a regeneration has returned empty text before the cap and the loop is left
C24_Witness ==
    /\ wpc = "log_regen"
    /\ wcontent = EmptyText
    /\ wattempt = 1
    /\ wattempt < max_retries

\* C25: a turn attempt whose final text is not empty appends exactly one
\* utterance: the commit step appends the message of the selected persona with
\* the final candidate as content and a turn number no earlier utterance
\* carries, and once the worker of such an attempt has ended that utterance is
\* in the history once and the display callback has run for it.
C25_NonEmptyTurnCommitsOnce ==
    /\ [][(wpc = "commit" /\ wpc' # "commit") =>
            /\ Len(history') = Len(history) + 1
            /\ SubSeq(history', 1, Len(history)) = history
            /\ LastOf(history').agent_name = wname
            /\ LastOf(history').content = wcontent
            /\ \A i \in DOMAIN history :
                  history[i].turn_number # LastOf(history').turn_number]_vars
    /\ []((WorkerEnded /\ wcontent # EmptyText) =>
            /\ Cardinality(UtteranceOf(attempts)) = 1
            /\ \E i \in UtteranceOf(attempts) :
                  /\ history[i].agent_name = wname
                  /\ history[i].content = wcontent
            /\ wpc = "idle"
            /\ status[wname] = "idle")

\* C26: with three personas, when the last 2 pair-history entries both join
\* the dyad of the last speaker A and a persona B that A's utterance names, and
\* a third persona is out of cooldown, select_next does not return B.
C26_LockedDyadYieldsToThird ==
    \A b \in AgentSet :
        ( /\ ret.called /\ ~paused /\ ret.last # NoMsg
          /\ ret.last.agent_name \in AgentSet \ {b}
          /\ Names(ret.last.content, b)
          /\ TailIsDyad(ret.last.agent_name, b)
          /\ \E c \in AgentSet \ {b, ret.last.agent_name} : OutOfCooldown(c)
        ) => ret.name # b

\* the worker builds the request of its turn
BuildStep == wpc = "build" /\ wpc' # "build"

\* C27: the subject counter stays between 0 and max_subject_chat.  A turn
\* request built with the counter below max_subject_chat is a continuation and
\* adds 1 to it; a request built with the counter at max_subject_chat is a
\* topic change: the topic call is made and returns, the counter is reset to 0
\* and the worker goes on to generate the turn.
C27_TopicRotation ==
    /\ [](subject_count \in 0..max_subject_chat)
    /\ [][(BuildStep /\ subject_count < max_subject_chat) =>
            (subject_count' = subject_count + 1 /\ wpc' = "gen_ready")]_vars
    /\ [][(BuildStep /\ subject_count >= max_subject_chat) =>
            (subject_count' = 0 /\ wpc' \in WorkerPcs)]_vars

SilentTurns(name) ==
    IF last_spoke[name] = 0 THEN turn_number
    ELSE turn_number - last_spoke_turn[name]

\* C29 as stated: the silence boost of a persona is the fixed bonus if the
\* number of turns since it last spoke exceeds the silence threshold, and 0
\* otherwise, a persona that never spoke counting from the start of the
\* session.
C29_SilenceBoostIffExceeds ==
    dcall.called /\ dcall.boost_name # NoOne =>
        dcall.boost = IF SilentTurns(dcall.boost_name) > SILENCE_THRESHOLD
                        THEN SILENCE_BOOST * Unit ELSE 0

\* C29 amended: the silence boost of a persona is the fixed bonus if the
\* number of turns since it last spoke is at least the silence threshold, and
\* 0 otherwise, a persona that never spoke counting from the start of the
\* session.
C29_SilenceBoostIffAtLeast ==
    dcall.called /\ dcall.boost_name # NoOne =>
        dcall.boost = IF SilentTurns(dcall.boost_name) >= SILENCE_THRESHOLD
                        THEN SILENCE_BOOST * Unit ELSE 0

\* the boost of a persona that spoke, exactly SILENCE_THRESHOLD turns ago
C29_Witness ==
    /\ dcall.called
    /\ dcall.boost_name # NoOne
    /\ last_spoke[dcall.boost_name] # 0
    /\ SilentTurns(dcall.boost_name) = SILENCE_THRESHOLD
    /\ dcall.boost = SILENCE_BOOST * Unit

C31_CleanStripsOneAndTruncates ==
    dcall.called =>
        LET s    == StripWs(dcall.text)
            c    == LeadingColon(s)
            rest == IF c = 0 THEN s
                    ELSE StripWs(SubSeq(s, c + 1, Len(s)))
            p    == MidMatchStart(rest)
            out  == dcall.cleaned IN
        /\ Len(out) <= Len(rest)
        /\ out = SubSeq(rest, 1, Len(out))
        /\ out = <<>> \/ (out[1] \notin WS /\ out[Len(out)] \notin WS)
        /\ MidMatchStart(out) = 0
        /\ p = 0 => out = rest
        /\ p # 0 => /\ Len(out) < p
                    /\ \A i \in (Len(out) + 1)..(p - 1) : rest[i] \in WS
        /\ LeadingColon(rest) # 0 => Len(out) >= LeadingColon(rest)

\* two attributions at the start and a third on a new line: the first is
\* stripped, the second kept, the text cut before the third
C31_Witness ==
    /\ dcall.called
    /\ LeadingColon(StripWs(dcall.text)) # 0
    /\ dcall.cleaned # <<>>
    /\ LeadingColon(dcall.cleaned) # 0
    /\ \E p \in DOMAIN dcall.text : MidMatchAt(dcall.text, p)
    /\ Len(dcall.cleaned) + LeadingColon(StripWs(dcall.text)) < Len(dcall.text) - 2

\* C32: whichever return statement of select_next produced it, the persona
\* returned is out of cooldown at the time of the call, and a persona returned
\* by the deterministic addressing path is not the speaker of the last message.
C32_ReturnedOutOfCooldownNotSpeaker ==
    (ret.called /\ ret.name # NoOne) =>
        /\ ret.name \in AgentSet
        /\ now - last_spoke[ret.name] >= cooldown
        /\ ret.path = "addressed" => ret.name # ret.last.agent_name

\* a deterministic return on a message that names its own speaker, who is out
\* of cooldown and earlier in the roster than the persona returned, and names
\* nobody else before the persona returned
C32_Witness ==
    /\ ret.called
    /\ ret.path = "addressed"
    /\ ret.last.agent_name \in AgentSet
    /\ Names(ret.last.content, ret.last.agent_name)
    /\ OutOfCooldown(ret.last.agent_name)
    /\ last_spoke[ret.last.agent_name] # 0
    /\ \E i, j \in DOMAIN Agents :
          /\ i < j
          /\ Agents[i] = ret.last.agent_name
          /\ Agents[j] = ret.name

\* a turn worker is running or waiting for the main thread
WorkerInFlight == wpc \notin {"idle", "failed"}

\* a step of a control handler: a pause toggle, a speed change, a stranger
\* message
HandlerStep ==
    \/ paused' # paused
    \/ ctl_paused' # ctl_paused
    \/ speed_mult' # speed_mult
    \/ strangers' # strangers

\* C33: the tick chain is never duplicated.  At every moment at most one of a
\* pending tick timer and an in-flight turn worker exists, whatever pause
\* toggles, speed changes and stranger messages come in between; and none of
\* these handlers schedules a tick or dispatches a generation.
C33_TickChainNotDuplicated ==
    /\ [](~(timer # 0 /\ WorkerInFlight))
    /\ [][HandlerStep =>
            /\ timer' = timer
            /\ wpc' = wpc
            /\ wname' = wname
            /\ attempts' = attempts]_vars

\* a turn in flight after a pause toggle, a speed change and a stranger message
C33_Witness ==
    /\ WorkerInFlight
    /\ timer = 0
    /\ paused
    /\ speed_mult # SpeedUnit
    /\ strangers > 0

\* the personas the sidebar shows as thinking
Thinking == {a \in AgentSet : status[a] = "thinking"}

\* C34: at most one persona has status thinking at any time, and every
\* persona marked thinking by a tick is eventually marked idle again, the
\* backend calls of its turn returning.
C34_ThinkingEndsIdle ==
    /\ [](Cardinality(Thinking) <= 1)
    /\ \A a \in AgentSet : (status[a] = "thinking") ~> (status[a] = "idle")

\* on_stranger_message appends one utterance of 'A stranger' and changes
\* nothing else
StrangerOnlyAppends ==
    [][strangers' # strangers =>
          /\ \E text \in StrangerTexts :
                history' = Append(history,
                    [agent_name |-> STRANGER, content |-> text,
                     turn_number |-> turn_number + 1])
          /\ UNCHANGED <<bvars, subject_count, timer, wpc, wname, wcontent,
                         wattempt, in_flight, status, attempts, spc, ret,
                         speed_mult, ctl_paused>>]_vars

\* every select_next call is given the last utterance of the history
SelectSeesLast ==
    [][ret' # ret =>
          ret'.called /\ ret'.last = LastOf(history) /\ history' = history]_vars

\* C35 as stated: a stranger message appends exactly one utterance of
\* 'A stranger' to the history and changes nothing else (turn counter,
\* last-spoke data, pair history, paused flag, subject counter), a generation
\* in flight or not; and it is the last utterance the next select_next sees
\* if no turn commits in between: only the commit of a turn puts an utterance
\* after it.
C35_StrangerLastUnlessCommit ==
    /\ StrangerOnlyAppends
    /\ SelectSeesLast
    /\ [][(LastOf(history).agent_name = STRANGER /\ history' # history)
            => wpc = "commit"]_vars

\* C35 amended: a stranger message appends exactly one utterance of
\* 'A stranger' to the history and changes nothing else, a generation in
\* flight or not; and it is the last utterance the next select_next sees if
\* in between no turn commits, the conversation is not seeded with the opener
\* and no other stranger message arrives.
C35_StrangerLastUnlessAppended ==
    /\ StrangerOnlyAppends
    /\ SelectSeesLast
    /\ [][(LastOf(history).agent_name = STRANGER /\ history' # history)
            => \/ wpc = "commit"
               \/ spc = "ready" /\ spc' = "open"
               \/ strangers' # strangers]_vars

\* a stranger message that arrived while a turn was in flight, the turn having
\* been dispatched on another last utterance
C35_Witness ==
    /\ WorkerInFlight
    /\ LastOf(history).agent_name = STRANGER
    /\ ret.called
    /\ ret.last.agent_name # STRANGER
    /\ turn_number > 0

\* C36: an engine never invokes the backend after it was unloaded.  For every
\* interleaving of generate and unload, generate either runs the backend call
\* on a loaded model or raises the 'not loaded' error; it never dereferences
\* the cleared model or client.
C36_NoUseAfterUnload ==
    /\ dcall.gpc # "crashed"
    /\ dcall.gpc = "backend" /\ mode = "local" => dcall.engine \in dcall.loaded

\* the tick that follows a turn attempt asks the scheduler: the worker is
\* through, ret still holds the selection that started the attempt
TickAfterAttempt ==
    /\ wpc = "idle"
    /\ attempts > 0
    /\ ret.called /\ ret.name = wname
    /\ ret' # ret \/ attempts' # attempts

\* C37 as stated: the persona of the most recent turn attempt, empty or not,
\* is never selected by the tick that immediately follows the attempt,
\* whatever the speed multiplier.
C37_NeverTwiceInARow ==
    [][TickAfterAttempt => ret'.name # wname]_vars

\* C37 amended: the persona of the most recent turn attempt is not selected
\* by the tick that immediately follows the attempt if that tick fires less
\* than the cooldown (1.5 x tick_interval) after the attempt was recorded;
\* and the tick a callback schedules right after the recording is due within
\* the cooldown for every speed multiplier of 1.0 and above.
C37_NotAgainWithinCooldown ==
    /\ [][(TickAfterAttempt /\ now - last_spoke[wname] < cooldown)
            => ret'.name # wname]_vars
    /\ [][( /\ wpc \in {"cb_empty", "cb_display"}
            /\ wpc' = "idle"
            /\ now = last_spoke[wname]
            /\ speed_mult >= SpeedUnit )
            => timer' - last_spoke[wname] < cooldown]_vars

\* a second attempt dispatched at speed 1.0 or above while the persona of the
\* first is still in cooldown
C37_Witness ==
    /\ attempts = 2
    /\ wpc = "build"
    /\ speed_mult >= SpeedUnit
    /\ \E a \in AgentSet \ {wname} :
          last_spoke[a] # 0 /\ now - last_spoke[a] < cooldown

\* C38: after any sequence of speed-up and speed-down actions, buttons or key
\* bindings, the speed multiplier is within [0.25, 4.0], having started at 1.0
\* and moved in steps of 0.25; so the tick interval tick_interval / speed_mult
\* is defined and positive: every tick is scheduled later than the time it is
\* scheduled at.
C38_SpeedWithinBounds ==
    /\ speed_mult = SpeedUnit
    /\ [](speed_mult \in SPEED_MIN..SPEED_MAX)
    /\ [][speed_mult' - speed_mult \in {-SPEED_STEP, 0, SPEED_STEP}]_vars
    /\ [][(timer' # timer /\ timer' # 0) => timer' > now]_vars

\* a tick scheduled after a turn at the lowest speed, and the highest speed
\* reached afterwards
C38_Witness ==
    /\ attempts > 0
    /\ timer = last_spoke[wname] + CeilDiv(tick_interval * SpeedUnit, SPEED_MIN)
    /\ speed_mult = SPEED_MAX

\* C39: after any sequence of presses of the Pause button and of the 'p' key
\* the pause state the control bar shows (its paused flag and its label)
\* equals the scheduler's paused flag, and each press of either control flips
\* the scheduler's paused flag.
C39_ControlBarShowsPaused ==
    /\ [](ctl_paused = paused)
    /\ [][ctl_paused' # ctl_paused => paused' # paused]_vars

====
